---- MODULE Spec2Model ----
(***************************************************************************)
(* Skinned-vertex synthesis and segment buffer loading of                  *)
(* fast64_internal/oot/oot_model_classes.py:                               *)
(*   OOTF3DContext.processVertexDataName -> ootParseAnimatedLimb ->        *)
(*   ootAddSkinVertexData, with SkinAnimatedLimbData / SkinLimbModif and   *)
(*   ootRetrieveMatrixData.                                                *)
(*                                                                         *)
(* Conventions.                                                            *)
(*  - Python lists are TLA+ sequences; a Python index i is element i+1.    *)
(*  - A raised exception is a value of the "err" field of an operator's    *)
(*    result ("none" when the call returns normally).  PluginError is one  *)
(*    Python type; its instances are told apart by their message, which    *)
(*    is what the err strings name.                                        *)
(*  - Positions are held in hundredths: scale * 0.01 of the source is the  *)
(*    integer scale with the unit 1/100, so (10,0,0) * 1.5 is (1500,0,0).  *)
(*  - An array body is held as the sequence of brace groups the scanning   *)
(*    pattern of the source matches in it, each group a tuple of tokens.   *)
(***************************************************************************)
EXTENDS Integers, Sequences, FiniteSets, TLC

VARIABLES
    isAnimSkinLimb,            \* OOTF3DContext.isAnimSkinLimb
    animSkinLimbData,          \* OOTF3DContext.animSkinLimbData (the header match)
    matrixData,                \* F3DContext.matrixData : limb name -> transform
    vertexData,                \* F3DContext.vertexData : table name -> vertex table
    vertexBuffer,              \* F3DContext.vertexBuffer : fixed-size slots
    defaultLimbModifications,  \* the list object that is the default of
                               \* SkinAnimatedLimbData.__init__'s limbModifications
    dlText,                    \* the display-list text the caller passes to each call
    synthRuns,                 \* table name -> number of synthesis runs started
    stores,                    \* table name -> number of tables stored under it
    call                       \* the processVertexDataName call whose outcome the
                               \* caller has not taken yet: inputs, outcome and
                               \* the state it started from (NoCall when none)
    , scan                     \* one pass of a re.finditer loop of
                               \* populateSkinLimbModif over an array body
                               \* (NoScan when none is under way)

vars == <<isAnimSkinLimb, animSkinLimbData, matrixData, vertexData, vertexBuffer,
          defaultLimbModifications, dlText, synthRuns, stores, call, scan>>

----------------------------------------------------------------------------
(* Bounds *)

\* len(f3dContext.vertexBuffer)
BufferCapacity == 3

\* synthesis runs started per session (each run appends to the shared list)
MaxSynthRuns == 3

\* brace groups in an array body of a pass of the scanning pattern
MaxGroups == 3

----------------------------------------------------------------------------
(* Python values *)

\* Python None (a record, so that it compares with the records it stands in for)
None == [isNone |-> TRUE]

\* sizeof(Vtx), the per-vertex stride
VtxStride == 16

\* the 24-bit offset mask 0x00FFFFFF, as a modulus
SegmentOffsetModulus == 16777216

\* list[i] of Python for a list of length n: the TLA+ position, or 0 when the
\* index is out of range (IndexError)
PyIndex(i, n) ==
    IF i >= 0 /\ i < n THEN i + 1
    ELSE IF i < 0 /\ i >= -n THEN n + i + 1
    ELSE 0

\* the outcome of list[i] when i is out of range
IndexError == [isIndexError |-> TRUE]

\* list[i] of Python, read
PyGet(list, i) ==
    IF PyIndex(i, Len(list)) = 0 THEN IndexError ELSE list[PyIndex(i, Len(list))]

RECURSIVE SeqSum(_)
SeqSum(s) == IF s = <<>> THEN 0 ELSE Head(s) + SeqSum(Tail(s))

----------------------------------------------------------------------------
(* Tokens and hexOrDecInt *)

\* A scalar token of a brace group: its digit characters (values 0..15 for
\* 0-9, A-F), whether it carries the 0x prefix, and whether it carries a
\* minus sign.
Tok(hex, neg, digits) == [hex |-> hex, neg |-> neg, digits |-> digits]

RECURSIVE DigitsOf(_, _)
DigitsOf(n, base) ==
    IF n < base THEN <<n>> ELSE Append(DigitsOf(n \div base, base), n % base)

\* the decimal and the hexadecimal literal of a natural number
Dec(n) == Tok(FALSE, FALSE, DigitsOf(n, 10))
Hex(n) == Tok(TRUE, FALSE, DigitsOf(n, 16))

\* a token that is no numeric literal: the letter F without a 0x prefix
BadToken == Tok(FALSE, FALSE, <<15>>)

RECURSIVE DigitsValue(_, _)
DigitsValue(digits, base) ==
    IF digits = <<>> THEN 0
    ELSE DigitsValue(SubSeq(digits, 1, Len(digits) - 1), base) * base
         + digits[Len(digits)]

\* a variant that reads every token with int(value): a 0x token is no decimal
\* literal; C16 does not hold of it
hexOrDecInt_DecimalOnly(tok) ==
    IF tok.hex \/ tok.digits = <<>> \/ \E i \in DOMAIN tok.digits : tok.digits[i] >= 10
    THEN [err |-> "ValueError", val |-> 0]
    ELSE [err |-> "none",
          val |-> IF tok.neg THEN 0 - DigitsValue(tok.digits, 10)
                  ELSE DigitsValue(tok.digits, 10)]

\* utility.hexOrDecInt: int(value, 16) for a 0x token, int(value) otherwise;
\* ValueError when a character is no digit of the base
hexOrDecInt(tok) ==
    LET base == IF tok.hex THEN 16 ELSE 10
    IN  IF tok.digits = <<>> \/ \E i \in DOMAIN tok.digits : tok.digits[i] >= base
        THEN [err |-> "ValueError", val |-> 0]
        ELSE [err |-> "none",
              val |-> IF tok.neg THEN 0 - DigitsValue(tok.digits, base)
                      ELSE DigitsValue(tok.digits, base)]

----------------------------------------------------------------------------
\* The scanning pattern of the array bodies,
\*     \{\s*([^,\s]*)\s*,  ...  \s*([^,\s]*)[\s,]*},
\* with 7 groups for Struct_800A57C0 and 5 groups for Struct_800A598C_2 and
\* Struct_800A598C; a body is a sequence of one-character strings

\* \s
IsSpace(c) == c \in {" ", "\n"}

\* [^,\s]
IsFieldChar(c) == c # "," /\ ~IsSpace(c)

\* the position after the longest run of \s from position p
RECURSIVE skipSpace(_, _)
skipSpace(text, p) ==
    IF p <= Len(text) /\ IsSpace(text[p]) THEN skipSpace(text, p + 1) ELSE p

\* the position after the longest run of [^,\s] from position p
RECURSIVE skipField(_, _)
skipField(text, p) ==
    IF p <= Len(text) /\ IsFieldChar(text[p]) THEN skipField(text, p + 1) ELSE p

\* the position after the longest run of [\s,] from position p
RECURSIVE skipSpaceComma(_, _)
skipSpaceComma(text, p) ==
    IF p <= Len(text) /\ ~IsFieldChar(text[p]) THEN skipSpaceComma(text, p + 1)
    ELSE p

NoMatch == [ok |-> FALSE, groups |-> <<>>, end |-> 0]

\* the last group and the tail of the pattern from position a (after \s*):
\* the group is the whole run of field characters when [\s,]* then leads to
\* "},", and else the run without its last character when that character is
\* the "}" of "},"
lastGroup(text, a, groups) ==
    LET Tail1(e, w) ==
            IF w + 1 <= Len(text) /\ text[w] = "}" /\ text[w + 1] = ","
            THEN [ok |-> TRUE, groups |-> Append(groups, SubSeq(text, a, e - 1)),
                  end |-> w + 2]
            ELSE IF e - 1 >= a /\ e <= Len(text) /\ text[e - 1] = "}" /\ text[e] = ","
            THEN [ok |-> TRUE, groups |-> Append(groups, SubSeq(text, a, e - 2)),
                  end |-> e + 1]
            ELSE NoMatch
        Run(e) == Tail1(e, skipSpaceComma(text, e))
    IN  Run(skipField(text, a))

\* the groups k..n of the pattern from position q: \s*([^,\s]*)\s*, for each
\* group but the last
RECURSIVE matchGroups(_, _, _, _, _)
matchGroups(text, q, k, n, groups) ==
    LET Comma(a, e, c) ==
            IF c <= Len(text) /\ text[c] = ","
            THEN matchGroups(text, c + 1, k + 1, n,
                             Append(groups, SubSeq(text, a, e - 1)))
            ELSE NoMatch
        Field(a, e) == Comma(a, e, skipSpace(text, e))
        Start(a) == IF k = n THEN lastGroup(text, a, groups)
                    ELSE Field(a, skipField(text, a))
    IN  Start(skipSpace(text, q))

\* the match of the pattern with n groups that starts at position p
matchAt(text, p, n) ==
    IF p <= Len(text) /\ text[p] = "{" THEN matchGroups(text, p + 1, 1, n, <<>>)
    ELSE NoMatch

\* re.finditer: the next match at or after position p (leftmost first)
RECURSIVE finditer(_, _, _)
finditer(text, p, n) ==
    LET Found(m) == IF m.ok THEN m ELSE finditer(text, p + 1, n)
    IN  IF p > Len(text) THEN NoMatch ELSE Found(matchAt(text, p, n))

\* the characters that are digits of a numeric literal, by value
DigitChars ==
    <<"0", "1", "2", "3", "4", "5", "6", "7", "8", "9", "a", "b", "c", "d", "e", "f">>

DigitValue(c) == (CHOOSE i \in DOMAIN DigitChars : DigitChars[i] = c) - 1

\* the token a matched group is for hexOrDecInt: sign, 0x prefix, digits
TokOf(chars) ==
    LET Digits(hex, neg, ds) ==
            IF \A i \in DOMAIN ds : \E j \in DOMAIN DigitChars : DigitChars[j] = ds[i]
            THEN Tok(hex, neg, [i \in DOMAIN ds |-> DigitValue(ds[i])])
            ELSE BadToken
        Prefixed(neg, body) ==
            IF Len(body) >= 2 /\ body[1] = "0" /\ body[2] = "x"
            THEN Digits(TRUE, neg, SubSeq(body, 3, Len(body)))
            ELSE Digits(FALSE, neg, body)
    IN  IF chars # <<>> /\ chars[1] = "-" THEN Prefixed(TRUE, Tail(chars))
        ELSE Prefixed(FALSE, chars)

\* whether every token of a sequence of brace groups is a numeric literal
AllNumeric(groups) ==
    \A g \in DOMAIN groups : \A f \in DOMAIN groups[g] :
        hexOrDecInt(groups[g][f]).err = "none"

----------------------------------------------------------------------------
(* Array extraction *)

\* oot_utility.captureData with continueOnError False: the body of the named
\* array of the text, or the not-found error.  A text is a function from the
\* names of the arrays it declares to their bodies.
captureData(dlData, name) ==
    IF name \in DOMAIN dlData
    THEN [err |-> "none", body |-> dlData[name]]
    ELSE [err |-> "NotFound", body |-> <<>>]

----------------------------------------------------------------------------
(* SkinVertex, SkinTransformation, SkinLimbModif *)

SkinVertex(g) ==
    [index |-> hexOrDecInt(g[1]).val, s |-> hexOrDecInt(g[2]).val,
     t |-> hexOrDecInt(g[3]).val, normX |-> hexOrDecInt(g[4]).val,
     normY |-> hexOrDecInt(g[5]).val, normZ |-> hexOrDecInt(g[6]).val,
     alpha |-> hexOrDecInt(g[7]).val]

SkinTransformation(g) ==
    [limbIndex |-> hexOrDecInt(g[1]).val, x |-> hexOrDecInt(g[2]).val,
     y |-> hexOrDecInt(g[3]).val, z |-> hexOrDecInt(g[4]).val,
     scale |-> hexOrDecInt(g[5]).val]

\* the first error of parsing the groups of one captured sub-array
parseError(captured) ==
    IF captured.err # "none" THEN captured.err
    ELSE IF ~AllNumeric(captured.body) THEN "ValueError"
    ELSE "none"

\* the list object populateSkinLimbModif makes for a field of the SkinLimbModif
\* object self (vtxData at line 583, transformData at line 597); self is the
\* place the object takes in the list that holds every such object
NewList(self, field) == <<self, field>>

\* the list object the default argument of SkinLimbModif.__init__ gives every
\* instance for a field (lines 570-571)
DefaultList(field) == <<0, field>>

\* a variant that leaves the counts and the lists of the object as the
\* constructor set them; C21 does not hold of it
populateSkinLimbModif_FieldsUnset(self, dlData, unk_4, skinVertices, limbTransformations) ==
    LET Built(vtx, tr) ==
            [err |-> "none",
             modif |-> [vtxCount |-> 0,
                        transformCount |-> 0,
                        unk_4 |-> unk_4,
                        skinVertices |-> [i \in DOMAIN vtx |-> SkinVertex(vtx[i])],
                        skinVerticesObject |-> DefaultList("skinVertices"),
                        limbTransformations |->
                            [i \in DOMAIN tr |-> SkinTransformation(tr[i])],
                        limbTransformationsObject |->
                            DefaultList("limbTransformations")]]
        Checked(vtxErr, trErr) ==
            IF vtxErr # "none" THEN [err |-> vtxErr, modif |-> None]
            ELSE IF trErr # "none" THEN [err |-> trErr, modif |-> None]
            ELSE Built(dlData[skinVertices], dlData[limbTransformations])
    IN  Checked(parseError(captureData(dlData, skinVertices)),
                parseError(captureData(dlData, limbTransformations)))

\* self.populateSkinLimbModif(dlData, skinVertices, limbTransformations) for
\* self = SkinLimbModif(unk_4=...): the populated object, or the first error
\* raised; each list is held as its records and as the object that carries
\* them
populateSkinLimbModif(self, dlData, unk_4, skinVertices, limbTransformations) ==
    LET Built(vtx, tr) ==
            [err |-> "none",
             modif |-> [vtxCount |-> Len(vtx),
                        transformCount |-> Len(tr),
                        unk_4 |-> unk_4,
                        skinVertices |-> [i \in DOMAIN vtx |-> SkinVertex(vtx[i])],
                        skinVerticesObject |-> NewList(self, "skinVertices"),
                        limbTransformations |->
                            [i \in DOMAIN tr |-> SkinTransformation(tr[i])],
                        limbTransformationsObject |->
                            NewList(self, "limbTransformations")]]
        Checked(vtxErr, trErr) ==
            IF vtxErr # "none" THEN [err |-> vtxErr, modif |-> None]
            ELSE IF trErr # "none" THEN [err |-> trErr, modif |-> None]
            ELSE Built(dlData[skinVertices], dlData[limbTransformations])
    IN  Checked(parseError(captureData(dlData, skinVertices)),
                parseError(captureData(dlData, limbTransformations)))

\* the loop of populateLimbModifications over the matched groups, from group k:
\* each populated modification is appended to the list; an error stops the
\* loop and leaves what was appended before it
RECURSIVE populateLoop(_, _, _, _)
populateLoop(list, dlData, groups, k) ==
    LET Appended(cur) ==
            IF cur.err # "none" THEN [err |-> cur.err, list |-> list]
            ELSE populateLoop(Append(list, cur.modif), dlData, groups, k + 1)
        Parsed(unk) ==
            IF unk.err # "none" THEN [err |-> unk.err, list |-> list]
            ELSE Appended(populateSkinLimbModif(Len(list) + 1, dlData, unk.val,
                                                groups[k][4], groups[k][5]))
    IN  IF k > Len(groups) THEN [err |-> "none", list |-> list]
        ELSE Parsed(hexOrDecInt(groups[k][3]))

\* SkinAnimatedLimbData.populateLimbModifications(dlData, arrayName, False),
\* for an instance whose limbModifications is `list`
populateLimbModifications(list, dlData, arrayName) ==
    IF arrayName \in DOMAIN dlData
    THEN populateLoop(list, dlData, captureData(dlData, arrayName).body, 1)
    ELSE [err |-> captureData(dlData, arrayName).err, list |-> list]

----------------------------------------------------------------------------
(* Bone matrix resolver *)

\* OOTF3DContext.limbList
limbList == <<"gRootLimb", "gBodyLimb", "gHeadLimb">>

\* OOTF3DContext.getLimbName(index): limbList[index]
getLimbName(index) ==
    LET k == PyIndex(index, Len(limbList))
    IN  IF k = 0 THEN [err |-> "IndexError", name |-> None]
        ELSE [err |-> "none", name |-> limbList[k]]

\* 3-vectors and 3x3 matrices of integers
VecAdd(a, b) == <<a[1] + b[1], a[2] + b[2], a[3] + b[3]>>
VecScale(a, k) == <<a[1] * k, a[2] * k, a[3] * k>>
MatVec(m, v) ==
    [r \in 1..3 |-> m[r][1] * v[1] + m[r][2] * v[2] + m[r][3] * v[3]]

\* A transform of matrixData is held decomposed, as mathutils decomposes it:
\* loc = to_translation(), rot = to_euler().to_matrix(), scale = to_scale().
\* ootRetrieveMatrixData(f3dContext, limbIndex): Translation(loc / scale) @ rot
\* a variant that gives a limb without a transform the identity transform
\* instead of raising; C6 does not hold of it
ootRetrieveMatrixData_IdentityDefault(md, limbIndex) ==
    LET nm == getLimbName(limbIndex)
    IN  IF nm.err # "none" THEN [err |-> nm.err, matrix |-> None]
        ELSE IF nm.name \in DOMAIN md
        THEN [err |-> "none",
              matrix |-> [loc |-> <<md[nm.name].loc[1] \div md[nm.name].scale[1],
                                    md[nm.name].loc[2] \div md[nm.name].scale[2],
                                    md[nm.name].loc[3] \div md[nm.name].scale[3]>>,
                          rot |-> md[nm.name].rot]]
        ELSE [err |-> "none",
              matrix |-> [loc |-> <<0, 0, 0>>,
                          rot |-> <<<<1, 0, 0>>, <<0, 1, 0>>, <<0, 0, 1>>>>]]

ootRetrieveMatrixData(md, limbIndex) ==
    LET Found(b) ==
            [err |-> "none",
             matrix |-> [loc |-> <<b.loc[1] \div b.scale[1],
                                   b.loc[2] \div b.scale[2],
                                   b.loc[3] \div b.scale[3]>>,
                         rot |-> b.rot]]
        Named(nm) ==
            IF nm.err # "none" THEN [err |-> nm.err, matrix |-> None]
            ELSE IF nm.name \in DOMAIN md THEN Found(md[nm.name])
            ELSE [err |-> "MissingBoneTransform", matrix |-> None]
    IN  Named(getLimbName(limbIndex))

\* (matrix @ Matrix.Translation(Vector((x, y, z)))).to_translation() * scale,
\* with scale = transformEntry.scale * 0.01 (the result is in hundredths)
weightedPosition(md, transformEntry) ==
    LET Placed(m) ==
            IF m.err # "none" THEN [err |-> m.err, point |-> <<0, 0, 0>>]
            ELSE [err |-> "none",
                  point |-> VecScale(
                      VecAdd(m.matrix.loc,
                             MatVec(m.matrix.rot,
                                    <<transformEntry.x, transformEntry.y,
                                      transformEntry.z>>)),
                      transformEntry.scale)]
    IN  Placed(ootRetrieveMatrixData(md, transformEntry.limbIndex))

----------------------------------------------------------------------------
(* Vertex synthesizer *)

\* the else branch of the anchor computation: vtxPoint += position * scale over
\* limbTransformations from entry k, stopping at the first error
RECURSIVE sumTransforms(_, _, _, _)
sumTransforms(md, limbTransformations, k, vtxPoint) ==
    LET Added(p) ==
            IF p.err # "none" THEN [err |-> p.err, point |-> vtxPoint]
            ELSE sumTransforms(md, limbTransformations, k + 1,
                               VecAdd(vtxPoint, p.point))
    IN  IF k > Len(limbTransformations) THEN [err |-> "none", point |-> vtxPoint]
        ELSE Added(weightedPosition(md, limbTransformations[k]))

\* a variant whose single-record branch leaves the scale out (scale 1.0); C9
\* does not hold of it
anchorOf_UnitScale(md, modif) ==
    IF modif.transformCount = 1
    THEN IF PyIndex(modif.unk_4, Len(modif.limbTransformations)) = 0
         THEN [err |-> "IndexError", point |-> <<0, 0, 0>>]
         ELSE weightedPosition(md,
                  [modif.limbTransformations[
                       PyIndex(modif.unk_4, Len(modif.limbTransformations))]
                   EXCEPT !.scale = 100])
    ELSE sumTransforms(md, modif.limbTransformations, 1, <<0, 0, 0>>)

\* a variant that takes the disabled branch (elif True): the raw offset of
\* transforms[unk_4]; C10 does not hold of it
anchorOf_DirectAssignment(md, modif) ==
    IF modif.transformCount = 1
    THEN IF PyIndex(modif.unk_4, Len(modif.limbTransformations)) = 0
         THEN [err |-> "IndexError", point |-> <<0, 0, 0>>]
         ELSE weightedPosition(md,
                  modif.limbTransformations[
                      PyIndex(modif.unk_4, Len(modif.limbTransformations))])
    ELSE IF PyIndex(modif.unk_4, Len(modif.limbTransformations)) = 0
    THEN [err |-> "IndexError", point |-> <<0, 0, 0>>]
    ELSE [err |-> "none",
          point |-> VecScale(
              <<modif.limbTransformations[
                    PyIndex(modif.unk_4, Len(modif.limbTransformations))].x,
                modif.limbTransformations[
                    PyIndex(modif.unk_4, Len(modif.limbTransformations))].y,
                modif.limbTransformations[
                    PyIndex(modif.unk_4, Len(modif.limbTransformations))].z>>,
              100)]

\* vtxPoint of one modification
anchorOf(md, modif) ==
    IF modif.transformCount = 1
    THEN IF PyIndex(modif.unk_4, Len(modif.limbTransformations)) = 0
         THEN [err |-> "IndexError", point |-> <<0, 0, 0>>]
         ELSE weightedPosition(md,
                  modif.limbTransformations[
                      PyIndex(modif.unk_4, Len(modif.limbTransformations))])
    ELSE sumTransforms(md, modif.limbTransformations, 1, <<0, 0, 0>>)

\* a variant that appends the weights inside the loop of the else branch
\* only, so that a modification with one transform record has none; C19 does
\* not hold of it
weightDataOf_SummingBranchOnly(modif) ==
    IF modif.transformCount = 1 THEN <<>>
    ELSE [i \in DOMAIN modif.limbTransformations |->
             [limbIndex |-> modif.limbTransformations[i].limbIndex,
              weight |-> modif.limbTransformations[i].scale]]

\* weightData of one modification: VertexWeight(limbIndex, scale * 0.01),
\* the weight in hundredths
weightDataOf(modif) ==
    [i \in DOMAIN modif.limbTransformations |->
        [limbIndex |-> modif.limbTransformations[i].limbIndex,
         weight |-> modif.limbTransformations[i].scale]]

\* the Vector object line 1083 makes for record k of modification modif: one
\* per pass of the loop over skinVertices, named by the pass that made it
\* within the run that builds the table
NewVector(modif, k) == <<modif, k>>

\* the Vector object vtxPoint of modification modif (lines 1056, 1064, 1075)
AnchorVector(modif) == <<modif, 0>>

\* SkinF3DVert(position, uv, rgb, normal, alpha, weights, modif); position is
\* held as its coordinates and as the object that carries them; modif, a
\* reference to a SkinLimbModif object, is the object's position in the list
\* that holds every such object (defaultLimbModifications)
SkinF3DVert(vtxPoint, positionObject, skinVertex, weightData, modif) ==
    [position |-> vtxPoint,
     positionObject |-> positionObject,
     uv |-> <<skinVertex.s, skinVertex.t>>,
     rgb |-> <<1, 1, 1>>,
     normal |-> <<skinVertex.normX, skinVertex.normY, skinVertex.normZ>>,
     alpha |-> skinVertex.alpha,
     weights |-> weightData,
     modif |-> modif]

\* a variant that passes vtxPoint itself to every vertex of the modification
\* instead of a new Vector of its coordinates; C20 does not hold of it
RECURSIVE writeVertices_AnchorByReference(_, _, _, _, _, _)
writeVertices_AnchorByReference(table, skinVertices, vtxPoint, weightData, modif, k) ==
    LET Put(sv, slot) ==
            IF slot = 0 THEN [err |-> "IndexError", table |-> table]
            ELSE writeVertices_AnchorByReference(
                     [table EXCEPT ![slot] =
                          SkinF3DVert(vtxPoint, AnchorVector(modif), sv,
                                      weightData, modif)],
                     skinVertices, vtxPoint, weightData, modif, k + 1)
    IN  IF k > Len(skinVertices) THEN [err |-> "none", table |-> table]
        ELSE Put(skinVertices[k], PyIndex(skinVertices[k].index, Len(table)))

\* a variant that leaves a slot that already holds a vertex as it is; C17
\* does not hold of it
RECURSIVE writeVertices_FirstWins(_, _, _, _, _, _)
writeVertices_FirstWins(table, skinVertices, vtxPoint, weightData, modif, k) ==
    LET Put(sv, slot) ==
            IF slot = 0 THEN [err |-> "IndexError", table |-> table]
            ELSE writeVertices_FirstWins(
                     IF table[slot] # None THEN table
                     ELSE [table EXCEPT ![slot] =
                               SkinF3DVert(vtxPoint, NewVector(modif, k), sv, weightData, modif)],
                     skinVertices, vtxPoint, weightData, modif, k + 1)
    IN  IF k > Len(skinVertices) THEN [err |-> "none", table |-> table]
        ELSE Put(skinVertices[k], PyIndex(skinVertices[k].index, Len(table)))

\* a variant that grows the table to hold an index beyond its end; C13 does
\* not hold of it
RECURSIVE writeVertices_Grow(_, _, _, _, _, _)
writeVertices_Grow(table, skinVertices, vtxPoint, weightData, modif, k) ==
    LET Grown(sv) ==
            [i \in 1..(IF sv.index + 1 > Len(table) THEN sv.index + 1 ELSE Len(table))
                |-> IF i <= Len(table) THEN table[i] ELSE None]
        Put(sv, slot) ==
            IF sv.index < 0 /\ slot = 0 THEN [err |-> "IndexError", table |-> table]
            ELSE writeVertices_Grow(
                     [Grown(sv) EXCEPT ![IF slot = 0 THEN sv.index + 1 ELSE slot] =
                          SkinF3DVert(vtxPoint, NewVector(modif, k), sv, weightData, modif)],
                     skinVertices, vtxPoint, weightData, modif, k + 1)
    IN  IF k > Len(skinVertices) THEN [err |-> "none", table |-> table]
        ELSE Put(skinVertices[k], PyIndex(skinVertices[k].index, Len(table)))

\* the loop over skinVertices of one modification, from record k:
\* vertexData[skinVertex.index] = SkinF3DVert(...)
RECURSIVE writeVertices(_, _, _, _, _, _)
writeVertices(table, skinVertices, vtxPoint, weightData, modif, k) ==
    LET Put(sv, slot) ==
            IF slot = 0 THEN [err |-> "IndexError", table |-> table]
            ELSE writeVertices(
                     [table EXCEPT ![slot] = SkinF3DVert(vtxPoint, NewVector(modif, k), sv, weightData, modif)],
                     skinVertices, vtxPoint, weightData, modif, k + 1)
    IN  IF k > Len(skinVertices) THEN [err |-> "none", table |-> table]
        ELSE Put(skinVertices[k], PyIndex(skinVertices[k].index, Len(table)))

\* the loop over skinAnimLimbData.limbModifications, from modification k
RECURSIVE synthesizeLoop(_, _, _, _)
synthesizeLoop(md, limbModifications, table, k) ==
    LET Written(w) ==
            IF w.err # "none" THEN [err |-> w.err, table |-> table]
            ELSE synthesizeLoop(md, limbModifications, w.table, k + 1)
        Anchored(modif, a) ==
            IF a.err # "none" THEN [err |-> a.err, table |-> table]
            ELSE Written(writeVertices(table, modif.skinVertices, a.point,
                                       weightDataOf(modif), k, 1))
    IN  IF k > Len(limbModifications) THEN [err |-> "none", table |-> table]
        ELSE Anchored(limbModifications[k], anchorOf(md, limbModifications[k]))

\* vertexData = [None] * totalVtxCount, then the loop over the modifications
synthesize(md, limbModifications, totalVtxCount) ==
    synthesizeLoop(md, limbModifications,
                   [i \in 1..totalVtxCount |-> None], 1)

----------------------------------------------------------------------------
(* Segment buffer loader *)

\* BufferVertex(f3dVert, groupIndex, materialIndex)
BufferVertex(f3dVert, groupIndex, materialIndex) ==
    [f3dVert |-> f3dVert, groupIndex |-> groupIndex, materialIndex |-> materialIndex]

\* a variant that binds the slot to the limb of the selected transform record
\* (matrixLimbIndex) instead of limb 0; C14 does not hold of it
RECURSIVE copyLoop_SelectedLimb(_, _, _, _, _, _, _)
copyLoop_SelectedLimb(buffer, table, list, count, start, vertexDataOffset, i) ==
    LET Bound(vertex, limb, slot) ==
            IF limb.err # "none"
            THEN [err |-> limb.err, vertexBuffer |-> buffer]
            ELSE IF slot = 0
            THEN [err |-> "IndexError", vertexBuffer |-> buffer]
            ELSE copyLoop_SelectedLimb(
                     [buffer EXCEPT ![slot] = BufferVertex(vertex, limb.name, 0)],
                     table, list, count, start, vertexDataOffset, i + 1)
        Copy(vertex, slot) ==
            IF vertex = IndexError
            THEN [err |-> "IndexError", vertexBuffer |-> buffer]
            ELSE IF vertex = None
            THEN [err |-> "AttributeError", vertexBuffer |-> buffer]
            ELSE IF PyIndex(list[vertex.modif].unk_4,
                            Len(list[vertex.modif].limbTransformations)) = 0
            THEN [err |-> "IndexError", vertexBuffer |-> buffer]
            ELSE Bound(vertex,
                       getLimbName(
                           list[vertex.modif].limbTransformations[
                               PyIndex(list[vertex.modif].unk_4,
                                       Len(list[vertex.modif].limbTransformations))
                           ].limbIndex),
                       slot)
    IN  IF i >= count THEN [err |-> "none", vertexBuffer |-> buffer]
        ELSE Copy(PyGet(table, vertexDataOffset + i), PyIndex(start + i, Len(buffer)))

\* the copy loop of ootAddSkinVertexData, from iteration i of range(count);
\* an error stops it and leaves the slots written before it
RECURSIVE copyLoop(_, _, _, _, _, _, _)
copyLoop(buffer, table, list, count, start, vertexDataOffset, i) ==
    LET Copy(vertex, limb0, slot) ==
            IF vertex = IndexError
            THEN [err |-> "IndexError", vertexBuffer |-> buffer]
            ELSE IF vertex = None
            THEN [err |-> "AttributeError", vertexBuffer |-> buffer]
            ELSE IF PyIndex(list[vertex.modif].unk_4,
                            Len(list[vertex.modif].limbTransformations)) = 0
            THEN [err |-> "IndexError", vertexBuffer |-> buffer]
            ELSE IF limb0.err # "none"
            THEN [err |-> limb0.err, vertexBuffer |-> buffer]
            ELSE IF slot = 0
            THEN [err |-> "IndexError", vertexBuffer |-> buffer]
            ELSE copyLoop([buffer EXCEPT ![slot] = BufferVertex(vertex, limb0.name, 0)],
                          table, list, count, start, vertexDataOffset, i + 1)
    IN  IF i >= count THEN [err |-> "none", vertexBuffer |-> buffer]
        ELSE Copy(PyGet(table, vertexDataOffset + i), getLimbName(0),
                  PyIndex(start + i, Len(buffer)))

\* ootAddSkinVertexData(f3dContext, num, start, vertexDataName, vertexDataOffset)
\* with count and start the values math_eval gives for num and start, table
\* the cached table of vertexDataName and list the SkinLimbModif objects
\* a variant whose overflow check looks at start alone; C2 does not hold of it
ootAddSkinVertexData_StartOnly(buffer, table, list, count, start, vertexDataOffset) ==
    IF start > Len(buffer)
    THEN [err |-> "BufferOverflow", vertexBuffer |-> buffer]
    ELSE IF vertexDataOffset + count > Len(table)
    THEN [err |-> "IndexRange", vertexBuffer |-> buffer]
    ELSE copyLoop(buffer, table, list, count, start, vertexDataOffset, 0)

\* a variant whose range check lets a window end one entry past the table; C3
\* does not hold of it
ootAddSkinVertexData_RangeOffByOne(buffer, table, list, count, start, vertexDataOffset) ==
    IF start + count > Len(buffer)
    THEN [err |-> "BufferOverflow", vertexBuffer |-> buffer]
    ELSE IF vertexDataOffset + count > Len(table) + 1
    THEN [err |-> "IndexRange", vertexBuffer |-> buffer]
    ELSE copyLoop(buffer, table, list, count, start, vertexDataOffset, 0)

ootAddSkinVertexData(buffer, table, list, count, start, vertexDataOffset) ==
    IF start + count > Len(buffer)
    THEN [err |-> "BufferOverflow", vertexBuffer |-> buffer]
    ELSE IF vertexDataOffset + count > Len(table)
    THEN [err |-> "IndexRange", vertexBuffer |-> buffer]
    ELSE copyLoop(buffer, table, list, count, start, vertexDataOffset, 0)

----------------------------------------------------------------------------
(* ootParseAnimatedLimb *)

\* a variant that names the table after the whole pointer, so that two
\* pointers into one segment have two tables; C23 does not hold of it
vtxDataNameOf_WholePointer(pointer) == pointer

\* vtxDataName = f"Segment{pointer >> 24}VtxData": a table name is held as
\* its segment number
vtxDataNameOf(pointer) == pointer \div SegmentOffsetModulus

\* int((pointer & 0x00FFFFFF) / 0x10)
vertexDataOffsetOf(pointer) == (pointer % SegmentOffsetModulus) \div VtxStride

\* whether some slot of a table is None
HasNone(table) == \E i \in DOMAIN table : table[i] = None

\* the `if vtxDataName not in f3dContext.vertexData` block: the cache and the
\* shared list after it, the error it raised and the stage that raised it
\* (reading the header count, populating, synthesizing, the printing loop)
createVertices(cache, list, header, md, vtxDataName, dlData) ==
    LET Stored(pop, syn) ==
            IF syn.err # "none"
            THEN [err |-> syn.err, stage |-> "synthesize",
                  vertexData |-> cache, list |-> pop.list]
            ELSE [err |-> IF HasNone(syn.table) THEN "AttributeError" ELSE "none",
                  stage |-> "print",
                  vertexData |-> (vtxDataName :> syn.table) @@ cache,
                  list |-> pop.list]
        Populated(total, pop) ==
            IF pop.err # "none"
            THEN [err |-> pop.err, stage |-> "populate",
                  vertexData |-> cache, list |-> pop.list]
            ELSE Stored(pop, synthesize(md, pop.list, total.val))
        Counted(total) ==
            IF total.err # "none"
            THEN [err |-> total.err, stage |-> "header",
                  vertexData |-> cache, list |-> list]
            ELSE Populated(total,
                           populateLimbModifications(list, dlData,
                                                     header.limbModifications))
    IN  Counted(hexOrDecInt(header.totalVtxCount))

\* a variant that creates the vertices on every call, without looking for a
\* stored table; C5 does not hold of it
ootParseAnimatedLimb_AlwaysCreate(cache, buffer, list, header, md, pointer, num, start, dlData) ==
    LET Loaded(made, load) ==
            [err |-> load.err, stage |-> "load", vertexData |-> made.vertexData,
             vertexBuffer |-> load.vertexBuffer, list |-> made.list,
             synthesized |-> TRUE]
        Made(vtxDataName, made) ==
            IF made.err # "none"
            THEN [err |-> made.err, stage |-> made.stage,
                  vertexData |-> made.vertexData,
                  vertexBuffer |-> buffer, list |-> made.list, synthesized |-> TRUE]
            ELSE Loaded(made,
                        ootAddSkinVertexData(buffer, made.vertexData[vtxDataName],
                                             made.list, num, start,
                                             vertexDataOffsetOf(pointer)))
    IN  Made(vtxDataNameOf(pointer),
             createVertices(cache, list, header, md, vtxDataNameOf(pointer), dlData))

\* ootParseAnimatedLimb(f3dContext, pointer, num, start, dlData); stage is
\* "load" when ootAddSkinVertexData was called, else the stage that raised
ootParseAnimatedLimb(cache, buffer, list, header, md, pointer, num, start, dlData) ==
    LET Loaded(miss, made, load) ==
            [err |-> load.err, stage |-> "load", vertexData |-> made.vertexData,
             vertexBuffer |-> load.vertexBuffer, list |-> made.list,
             synthesized |-> miss]
        Made(vtxDataName, miss, made) ==
            IF made.err # "none"
            THEN [err |-> made.err, stage |-> made.stage,
                  vertexData |-> made.vertexData,
                  vertexBuffer |-> buffer, list |-> made.list, synthesized |-> miss]
            ELSE Loaded(miss, made,
                        ootAddSkinVertexData(buffer, made.vertexData[vtxDataName],
                                             made.list, num, start,
                                             vertexDataOffsetOf(pointer)))
        Named(vtxDataName) ==
            IF vtxDataName \notin DOMAIN cache
            THEN Made(vtxDataName, TRUE,
                      createVertices(cache, list, header, md, vtxDataName, dlData))
            ELSE Made(vtxDataName, FALSE,
                      [err |-> "none", stage |-> "cached",
                       vertexData |-> cache, list |-> list])
    IN  Named(vtxDataNameOf(pointer))

----------------------------------------------------------------------------
(* OOTF3DContext.processVertexDataName *)

\* the outcome of a call: a returned value or a raised error
Return(value) == [kind |-> "return", value |-> value, err |-> "none"]
Raise(err) == [kind |-> "raise", value |-> None, err |-> err]

\* a variant without the alignment check; C7 does not hold of it
processVertexDataName_NoAlignmentCheck(skin, cache, buffer, list, header, md, name, dlData, num, start) ==
    LET Same(outcome) ==
            [outcome |-> outcome, raised |-> "none", stage |-> "entry",
             vertexData |-> cache, vertexBuffer |-> buffer,
             list |-> list, synthesized |-> FALSE]
        Parsed(limb) ==
            [outcome |-> IF limb.err # "none" THEN Raise(limb.err) ELSE Return(None),
             raised |-> limb.err, stage |-> limb.stage,
             vertexData |-> limb.vertexData, vertexBuffer |-> limb.vertexBuffer,
             list |-> limb.list, synthesized |-> limb.synthesized]
        Pointed(pointer) ==
            IF pointer.err # "none" THEN Same(Return(name))
            ELSE IF ~skin THEN Same(Raise("SegmentNotParsable"))
            ELSE Parsed(ootParseAnimatedLimb(cache, buffer, list, header, md,
                                             pointer.val, num, start, dlData))
    IN  Pointed(hexOrDecInt(name))

\* a variant that catches what ootParseAnimatedLimb raises and returns the
\* name, as it does for a name that is no number; C8 does not hold of it
processVertexDataName_CatchAll(skin, cache, buffer, list, header, md, name, dlData, num, start) ==
    LET Same(outcome) ==
            [outcome |-> outcome, raised |-> "none", stage |-> "entry",
             vertexData |-> cache, vertexBuffer |-> buffer,
             list |-> list, synthesized |-> FALSE]
        Parsed(limb) ==
            [outcome |-> IF limb.err # "none" THEN Return(name) ELSE Return(None),
             raised |-> limb.err, stage |-> limb.stage,
             vertexData |-> limb.vertexData, vertexBuffer |-> limb.vertexBuffer,
             list |-> limb.list, synthesized |-> limb.synthesized]
        Pointed(pointer) ==
            IF pointer.err # "none" THEN Same(Return(name))
            ELSE IF ~skin THEN Same(Raise("SegmentNotParsable"))
            ELSE IF (pointer.val % SegmentOffsetModulus) % VtxStride # 0
            THEN Same(Raise("Alignment"))
            ELSE Parsed(ootParseAnimatedLimb(cache, buffer, list, header, md,
                                             pointer.val, num, start, dlData))
    IN  Pointed(hexOrDecInt(name))

\* a variant without the `return None` of line 415: a load that succeeds
\* falls through to `return name`; C24 does not hold of it
processVertexDataName_FallsThrough(skin, cache, buffer, list, header, md, name, dlData, num, start) ==
    LET Same(outcome) ==
            [outcome |-> outcome, raised |-> "none", stage |-> "entry",
             vertexData |-> cache, vertexBuffer |-> buffer,
             list |-> list, synthesized |-> FALSE]
        Parsed(limb) ==
            [outcome |-> IF limb.err # "none" THEN Raise(limb.err) ELSE Return(name),
             raised |-> limb.err, stage |-> limb.stage,
             vertexData |-> limb.vertexData, vertexBuffer |-> limb.vertexBuffer,
             list |-> limb.list, synthesized |-> limb.synthesized]
        Pointed(pointer) ==
            IF pointer.err # "none" THEN Same(Return(name))
            ELSE IF ~skin THEN Same(Raise("SegmentNotParsable"))
            ELSE IF (pointer.val % SegmentOffsetModulus) % VtxStride # 0
            THEN Same(Raise("Alignment"))
            ELSE Parsed(ootParseAnimatedLimb(cache, buffer, list, header, md,
                                             pointer.val, num, start, dlData))
    IN  Pointed(hexOrDecInt(name))

\* processVertexDataName(self, name, dlData, num, start): the outcome, the
\* context fields after the call, and the error ootParseAnimatedLimb raised
\* with the stage that raised it
processVertexDataName(skin, cache, buffer, list, header, md, name, dlData, num, start) ==
    LET Same(outcome) ==
            [outcome |-> outcome, raised |-> "none", stage |-> "entry",
             vertexData |-> cache, vertexBuffer |-> buffer,
             list |-> list, synthesized |-> FALSE]
        Parsed(limb) ==
            [outcome |-> IF limb.err # "none" THEN Raise(limb.err) ELSE Return(None),
             raised |-> limb.err, stage |-> limb.stage,
             vertexData |-> limb.vertexData, vertexBuffer |-> limb.vertexBuffer,
             list |-> limb.list, synthesized |-> limb.synthesized]
        Pointed(pointer) ==
            IF pointer.err # "none" THEN Same(Return(name))
            ELSE IF ~skin THEN Same(Raise("SegmentNotParsable"))
            ELSE IF (pointer.val % SegmentOffsetModulus) % VtxStride # 0
            THEN Same(Raise("Alignment"))
            ELSE Parsed(ootParseAnimatedLimb(cache, buffer, list, header, md,
                                             pointer.val, num, start, dlData))
    IN  Pointed(hexOrDecInt(name))

----------------------------------------------------------------------------
(* Inputs *)

\* brace groups of Struct_800A57C0 arrays: {index, s, t, normX, normY, normZ, alpha}
vtxGroup(index) ==
    <<index, Dec(10), Dec(20), Dec(1), Dec(2), Dec(3), Hex(255)>>

\* a group with other texture coordinates, normal and alpha
vtxGroupLate(index) ==
    <<index, Dec(11), Dec(21), Dec(4), Dec(5), Dec(6), Hex(128)>>

\* brace groups of Struct_800A598C_2 arrays: {limbIndex, x, y, z, scale}
trGroup(limbIndex, x, y, z, scale) ==
    <<Dec(limbIndex), Dec(x), Dec(y), Dec(z), Dec(scale)>>

\* the sub-arrays every text declares
SubArrays ==
    [vtxA      |-> << vtxGroup(Dec(0)) >>,
     vtxB      |-> << vtxGroup(Hex(1)) >>,
     vtxAB     |-> << vtxGroup(Dec(0)), vtxGroup(Dec(1)), vtxGroupLate(Dec(0)) >>,
     vtxFar    |-> << vtxGroup(Dec(3)) >>,
     vtxBad    |-> << vtxGroup(BadToken) >>,
     trBody150 |-> << trGroup(1, 0, 0, 0, 150) >>,
     trHalves  |-> << trGroup(1, 0, 0, 0, 50), trGroup(2, 0, 0, 0, 50) >>,
     trOffset  |-> << trGroup(2, 4, 0, 0, 100) >>,
     trNone    |-> << >>]

\* brace groups of the Struct_800A598C array: {vtxCount, transformCount, unk_4,
\* skinVertices, limbTransformations}
gA      == <<Dec(1), Dec(1), Dec(0), "vtxA", "trBody150">>
gB      == <<Dec(1), Dec(2), Hex(0), "vtxB", "trHalves">>
gSel    == <<Dec(1), Dec(2), Dec(2), "vtxB", "trHalves">>
gOff    == <<Dec(3), Dec(1), Dec(0), "vtxAB", "trOffset">>
gZero   == <<Dec(1), Dec(0), Dec(0), "vtxB", "trNone">>
gFar    == <<Dec(1), Dec(1), Dec(0), "vtxFar", "trBody150">>
gBad    == <<Dec(1), Dec(1), Dec(0), "vtxBad", "trBody150">>
gNoSub  == <<Dec(1), Dec(1), Dec(0), "vtxB", "trAbsent">>

\* one text per outer array
TextOf(mods) == [gLimbModifs |-> mods] @@ SubArrays

Texts ==
    { TextOf(<<gA, gB>>), TextOf(<<gA, gSel>>), TextOf(<<gA, gOff>>),
      TextOf(<<gA, gZero>>), TextOf(<<gFar, gB>>), TextOf(<<gA, gBad>>),
      TextOf(<<gA, gNoSub>>), SubArrays }

\* the SkinAnimatedLimbData header match: group(1) totalVtxCount,
\* group(3) limbModifications, group(4) dList
Header(totalVtxCount) ==
    [totalVtxCount |-> totalVtxCount, limbModifications |-> "gLimbModifs",
     dList |-> "gSkinDL"]

Headers == { Header(Dec(2)), Header(Hex(3)), Header(BadToken) }

Identity3 == <<<<1, 0, 0>>, <<0, 1, 0>>, <<0, 0, 1>>>>
RotZ90    == <<<<0, -1, 0>>, <<1, 0, 0>>, <<0, 0, 1>>>>

BoneMatrix(loc, rot, scale) == [loc |-> loc, rot |-> rot, scale |-> scale]

RootMatrix == BoneMatrix(<<0, 0, 0>>, Identity3, <<1, 1, 1>>)
BodyMatrix == BoneMatrix(<<10, 0, 0>>, Identity3, <<1, 1, 1>>)
HeadMatrix == BoneMatrix(<<0, 20, 0>>, RotZ90, <<2, 2, 2>>)

\* the bone-transform caches a session starts with: every limb resolved, or
\* the last limb not yet resolved
MatrixCaches ==
    { [gRootLimb |-> RootMatrix, gBodyLimb |-> BodyMatrix, gHeadLimb |-> HeadMatrix],
      [gRootLimb |-> RootMatrix, gBodyLimb |-> BodyMatrix] }

\* vertex data names: a symbol, and pointers into segments 8 and 9
SymbolName == Tok(FALSE, FALSE, <<15, 10, 11>>)
Names ==
    { SymbolName, Hex(134217728), Hex(134217744), Hex(134217736), Dec(150994944) }

\* the values math_eval gives for num and start
Nums   == { -1, 0, 1, 2, BufferCapacity + 1 }
Starts == { -1, 0, 1, BufferCapacity }

\* the table names the pointers of Names give, as a sequence and as a set
TableNameSeq == <<8, 9>>
TableNames == {TableNameSeq[i] : i \in DOMAIN TableNameSeq}

\* the table name of a vertex data name that is a pointer
TableNameOf(name) == vtxDataNameOf(hexOrDecInt(name).val)

\* the slot contents the caller allocates the buffer with
EmptySlot == None

----------------------------------------------------------------------------
(* Array bodies for the scanning pattern *)

\* the characters of a numeric literal, as a C source writes the token
CharsOf(tok) ==
    (IF tok.neg THEN <<"-">> ELSE <<>>)
        \o (IF tok.hex THEN <<"0", "x">> ELSE <<>>)
        \o [i \in DOMAIN tok.digits |-> DigitChars[tok.digits[i] + 1]]

\* the value of field j of the group at position d of a body
FieldValue(d, j) == 9 * d + j

\* the fields separated by sep
RECURSIVE JoinFields(_, _)
JoinFields(fields, sep) ==
    IF fields = <<>> THEN <<>>
    ELSE IF Len(fields) = 1 THEN fields[1]
    ELSE fields[1] \o sep \o JoinFields(Tail(fields), sep)

DecFields(d, count) == [j \in 1..count |-> CharsOf(Dec(FieldValue(d, j)))]
HexFields(d, count) == [j \in 1..count |-> CharsOf(Hex(FieldValue(d, j)))]

\* the ways a body writes the group at position d, for a pattern of n groups
GroupKinds ==
    {"plain", "hex", "spaced", "inner", "bare", "gap", "short", "long", "name"}

GroupText(kind, d, n) ==
    CASE kind = "plain"  -> <<"{">> \o JoinFields(DecFields(d, n), <<",">>) \o <<"}", ",">>
      [] kind = "hex"    -> <<"{">> \o JoinFields(HexFields(d, n), <<",">>) \o <<"}", ",">>
      [] kind = "spaced" -> <<"\n", " ", "{", " ">>
                                \o JoinFields(DecFields(d, n), <<" ", ",", "\n", " ">>)
                                \o <<" ", "}", ",">>
      [] kind = "inner"  -> <<"{">> \o JoinFields(DecFields(d, n), <<",">>)
                                \o <<",", "}", ",">>
      [] kind = "bare"   -> <<"{">> \o JoinFields(DecFields(d, n), <<",">>) \o <<"}">>
      [] kind = "gap"    -> <<"{">> \o JoinFields(DecFields(d, n), <<",">>)
                                \o <<"}", " ", ",">>
      [] kind = "short"  -> <<"{">> \o JoinFields(DecFields(d, n - 1), <<",">>)
                                \o <<"}", ",">>
      [] kind = "long"   -> <<"{">> \o JoinFields(DecFields(d, n + 1), <<",">>)
                                \o <<"}", ",">>
      [] kind = "name"   -> <<"{">> \o JoinFields([DecFields(d, n) EXCEPT ![2] = <<"N">>],
                                                  <<",">>)
                                \o <<"}", ",">>

\* the body that writes its groups in these ways, in this order
RECURSIVE BodyText(_, _, _)
BodyText(kinds, d, n) ==
    IF d > Len(kinds) THEN <<>>
    ELSE GroupText(kinds[d], d, n) \o BodyText(kinds, d + 1, n)

KindSeqs == UNION {[1..len -> GroupKinds] : len \in 1..MaxGroups}

\* the numbers of groups of the patterns: SkinTransformation, SkinVertex
Arities == {5, 7}

NoScan == [active |-> FALSE, kinds |-> <<>>, arity |-> 0, text |-> <<>>, pos |-> 1,
           records |-> <<>>, err |-> "none", done |-> FALSE]

StartScan(kinds, n) ==
    [active |-> TRUE, kinds |-> kinds, arity |-> n, text |-> BodyText(kinds, 1, n),
     pos |-> 1, records |-> <<>>, err |-> "none", done |-> FALSE]

----------------------------------------------------------------------------
(* State machine *)

NoCall == [active |-> FALSE, name |-> None, num |-> 0, start |-> 0, outcome |-> Return(None),
           raised |-> "none", stage |-> "entry", synthesized |-> FALSE,
           before |-> [vertexData |-> <<>>, vertexBuffer |-> <<>>,
                      limbModifications |-> <<>>] ]

\* OOTF3DContext.__init__, with the caller's buffer, bone transforms and text
Init ==
    /\ isAnimSkinLimb = FALSE
    /\ animSkinLimbData = None
    /\ matrixData \in MatrixCaches
    /\ vertexData = <<>>
    /\ vertexBuffer = [i \in 1..BufferCapacity |-> EmptySlot]
    /\ defaultLimbModifications = <<>>
    /\ dlText \in Texts
    /\ synthRuns = [n \in TableNames |-> 0]
    /\ stores = [n \in TableNames |-> 0]
    /\ call = NoCall
    /\ scan = NoScan

\* the skeleton importer finds a skin limb: it stores the header match
BeginSkinLimb ==
    /\ ~call.active
    /\ ~isAnimSkinLimb
    /\ \E h \in Headers :
        /\ isAnimSkinLimb' = TRUE
        /\ animSkinLimbData' = h
    /\ UNCHANGED <<matrixData, vertexData, vertexBuffer, defaultLimbModifications,
                   dlText, synthRuns, stores, call, scan>>

\* a variant in which a lookup that finds no transform stores the identity
\* for the limb, as setCurrentTransform does for a name it has not seen; C15
\* does not hold of it
ProcessVertexDataName_DefaultsIdentity ==
    /\ ~call.active
    /\ \E name \in Names, num \in Nums, start \in Starts :
      \E r \in {processVertexDataName(isAnimSkinLimb, vertexData, vertexBuffer,
                                       defaultLimbModifications, animSkinLimbData,
                                       matrixData, name, dlText, num, start)} :
            /\ r.synthesized => SeqSum([i \in 1..Len(TableNameSeq) |->
                                           synthRuns[TableNameSeq[i]]]) < MaxSynthRuns
            /\ vertexData' = r.vertexData
            /\ vertexBuffer' = r.vertexBuffer
            /\ defaultLimbModifications' = r.list
            /\ synthRuns' = [n \in TableNames |->
                                IF r.synthesized /\ n = TableNameOf(name)
                                THEN synthRuns[n] + 1 ELSE synthRuns[n]]
            /\ stores' = [n \in TableNames |->
                             IF r.synthesized /\ n = TableNameOf(name)
                                /\ n \in DOMAIN r.vertexData
                             THEN stores[n] + 1 ELSE stores[n]]
            /\ call' = [active |-> TRUE, name |-> name, num |-> num, start |-> start,
                        outcome |-> r.outcome, raised |-> r.raised, stage |-> r.stage,
                        synthesized |-> r.synthesized,
                        before |-> [vertexData |-> vertexData,
                                    vertexBuffer |-> vertexBuffer,
                                    limbModifications |->
                                        defaultLimbModifications]]
            /\ matrixData' =
                   IF r.raised = "MissingBoneTransform"
                   THEN [nm \in {limbList[i] : i \in DOMAIN limbList} |->
                            IF nm \in DOMAIN matrixData THEN matrixData[nm]
                            ELSE BoneMatrix(<<0, 0, 0>>, Identity3, <<1, 1, 1>>)]
                   ELSE matrixData
            /\ UNCHANGED <<isAnimSkinLimb, animSkinLimbData, dlText, scan>>

\* one call of processVertexDataName by the display-list parser (the code is
\* synchronous and single-threaded: a call starts when no call is under way)
ProcessVertexDataName ==
    /\ ~call.active
    /\ \E name \in Names, num \in Nums, start \in Starts :
      \E r \in {processVertexDataName(isAnimSkinLimb, vertexData, vertexBuffer,
                                       defaultLimbModifications, animSkinLimbData,
                                       matrixData, name, dlText, num, start)} :
            /\ r.synthesized => SeqSum([i \in 1..Len(TableNameSeq) |->
                                           synthRuns[TableNameSeq[i]]]) < MaxSynthRuns
            /\ vertexData' = r.vertexData
            /\ vertexBuffer' = r.vertexBuffer
            /\ defaultLimbModifications' = r.list
            /\ synthRuns' = [n \in TableNames |->
                                IF r.synthesized /\ n = TableNameOf(name)
                                THEN synthRuns[n] + 1 ELSE synthRuns[n]]
            /\ stores' = [n \in TableNames |->
                             IF r.synthesized /\ n = TableNameOf(name)
                                /\ n \in DOMAIN r.vertexData
                             THEN stores[n] + 1 ELSE stores[n]]
            /\ call' = [active |-> TRUE, name |-> name, num |-> num, start |-> start,
                        outcome |-> r.outcome, raised |-> r.raised, stage |-> r.stage,
                        synthesized |-> r.synthesized,
                        before |-> [vertexData |-> vertexData,
                                    vertexBuffer |-> vertexBuffer,
                                    limbModifications |->
                                        defaultLimbModifications]]
            /\ UNCHANGED <<isAnimSkinLimb, animSkinLimbData, matrixData, dlText, scan>>

\* the caller takes the outcome of the call (the returned value or the error)
TakeOutcome ==
    /\ call.active
    /\ call' = NoCall
    /\ UNCHANGED <<isAnimSkinLimb, animSkinLimbData, matrixData, vertexData,
                   vertexBuffer, defaultLimbModifications, dlText, synthRuns,
                   stores, scan>>

Next == BeginSkinLimb \/ ProcessVertexDataName \/ TakeOutcome

Spec == Init /\ [][Next]_vars

----------------------------------------------------------------------------
(* A session in which the importer leaves skin-limb mode *)

\* the session of one text, with every bone transform resolved
LimbInit ==
    /\ Init
    /\ dlText = TextOf(<<gA, gZero>>)
    /\ Len(limbList) = Cardinality(DOMAIN matrixData)

\* the skeleton importer goes on to a limb that is not a skin limb: it
\* clears the flag and the header match
EndSkinLimb ==
    /\ ~call.active
    /\ isAnimSkinLimb
    /\ isAnimSkinLimb' = FALSE
    /\ animSkinLimbData' = None
    /\ UNCHANGED <<matrixData, vertexData, vertexBuffer, defaultLimbModifications,
                   dlText, synthRuns, stores, call, scan>>

\* the skeleton of the session has one skin limb: the importer finds it
\* before any table is made
BeginOnlySkinLimb == vertexData = <<>> /\ BeginSkinLimb

LimbNext ==
    BeginOnlySkinLimb \/ EndSkinLimb \/ ProcessVertexDataName \/ TakeOutcome

LimbSpec == LimbInit /\ [][LimbNext]_vars

----------------------------------------------------------------------------
(* A session over a skeleton with two skin limbs *)

\* the one group of the outer array of the second limb: one vertex record,
\* of index 0
gSolo == <<Dec(1), Dec(1), Dec(0), "vtxA", "trOffset">>

\* a text that declares the outer arrays of two skin limbs
SkeletonText == [gLimbModifsB |-> <<gSolo>>] @@ TextOf(<<gA, gB>>)

\* the header matches of the two limbs, each of two vertices
LimbHeaders ==
    { Header(Dec(2)),
      [Header(Dec(2)) EXCEPT !.limbModifications = "gLimbModifsB"] }

\* OOTF3DContext.__init__, with the text of the skeleton and every bone
\* transform resolved
SkeletonInit ==
    /\ isAnimSkinLimb = FALSE
    /\ animSkinLimbData = None
    /\ matrixData \in {md \in MatrixCaches : Len(limbList) = Cardinality(DOMAIN md)}
    /\ vertexData = <<>>
    /\ vertexBuffer = [i \in 1..BufferCapacity |-> EmptySlot]
    /\ defaultLimbModifications = <<>>
    /\ dlText = SkeletonText
    /\ synthRuns = [n \in TableNames |-> 0]
    /\ stores = [n \in TableNames |-> 0]
    /\ call = NoCall
    /\ scan = NoScan

\* the skeleton importer finds one of the skin limbs
BeginLimb ==
    /\ ~call.active
    /\ ~isAnimSkinLimb
    /\ \E h \in LimbHeaders :
        /\ isAnimSkinLimb' = TRUE
        /\ animSkinLimbData' = h
    /\ UNCHANGED <<matrixData, vertexData, vertexBuffer, defaultLimbModifications,
                   dlText, synthRuns, stores, call, scan>>

SkeletonNext == BeginLimb \/ EndSkinLimb \/ ProcessVertexDataName \/ TakeOutcome

SkeletonSpec == SkeletonInit /\ [][SkeletonNext]_vars

----------------------------------------------------------------------------
(* One pass of a scanning loop of populateSkinLimbModif *)

\* populateSkinLimbModif has the array body captureData returned
ScanInit ==
    /\ isAnimSkinLimb = TRUE
    /\ animSkinLimbData = Header(Dec(2))
    /\ matrixData = CHOOSE md \in MatrixCaches : Len(limbList) = Cardinality(DOMAIN md)
    /\ vertexData = <<>>
    /\ vertexBuffer = [i \in 1..BufferCapacity |-> EmptySlot]
    /\ defaultLimbModifications = <<>>
    /\ dlText = SubArrays
    /\ synthRuns = [n \in TableNames |-> 0]
    /\ stores = [n \in TableNames |-> 0]
    /\ call = NoCall
    /\ \E kinds \in KindSeqs, n \in Arities : scan = StartScan(kinds, n)

\* the record the loop body builds from the groups of a match, or the
\* ValueError of the first hexOrDecInt that rejects its group
recordOf(groups) ==
    LET Built(toks) ==
            IF \E i \in DOMAIN toks : hexOrDecInt(toks[i]).err # "none"
            THEN [err |-> "ValueError", record |-> None]
            ELSE [err |-> "none",
                  record |-> IF Len(toks) = 7 THEN SkinVertex(toks)
                             ELSE SkinTransformation(toks)]
    IN  Built([i \in DOMAIN groups |-> TokOf(groups[i])])

\* one iteration of `for match in re.finditer(pattern, arrayString)`: the
\* next match and the loop body, which appends the record or raises
NextMatch ==
    /\ scan.active /\ ~scan.done
    /\ \E m \in {finditer(scan.text, scan.pos, scan.arity)} :
        /\ m.ok
        /\ \E r \in {recordOf(m.groups)} :
            scan' = IF r.err # "none"
                    THEN [scan EXCEPT !.pos = m.end, !.err = r.err, !.done = TRUE]
                    ELSE [scan EXCEPT !.pos = m.end,
                                      !.records = Append(@, r.record)]
    /\ UNCHANGED <<isAnimSkinLimb, animSkinLimbData, matrixData, vertexData,
                   vertexBuffer, defaultLimbModifications, dlText, synthRuns,
                   stores, call>>

\* re.finditer finds no further match: the loop ends
EndOfMatches ==
    /\ scan.active /\ ~scan.done
    /\ ~finditer(scan.text, scan.pos, scan.arity).ok
    /\ scan' = [scan EXCEPT !.done = TRUE]
    /\ UNCHANGED <<isAnimSkinLimb, animSkinLimbData, matrixData, vertexData,
                   vertexBuffer, defaultLimbModifications, dlText, synthRuns,
                   stores, call>>

ScanNext == NextMatch \/ EndOfMatches

ScanSpec == ScanInit /\ [][ScanNext]_vars

----------------------------------------------------------------------------
(* Properties *)

\* the call under way raised an error
Failed == call.active /\ call.outcome.kind = "raise"

\* the call under way reached ootAddSkinVertexData
LoaderRan == call.active /\ call.stage = "load"

\* the pointer, the table and the table offset of the call under way
CallPointer == hexOrDecInt(call.name).val
CallTable == vertexData[vtxDataNameOf(CallPointer)]
CallOffset == (CallPointer % 16777216) \div 16

\* the buffer is as it was when the call under way started
BufferUntouched == vertexBuffer = call.before.vertexBuffer

\* the cache is as it was when the call under way started
CacheUntouched == vertexData = call.before.vertexData

\* some slot of the buffer held a vertex when the call under way started
BufferWasLoaded ==
    \E i \in DOMAIN call.before.vertexBuffer : call.before.vertexBuffer[i] # EmptySlot

\* C1: a call of processVertexDataName that ends in an error leaves every slot
\* of the destination buffer as it was before the call.
C1_NoPartialWrites == Failed => BufferUntouched

\* C2: when ootAddSkinVertexData is called with start + count above the
\* capacity of the buffer, it raises the buffer-overflow error and no slot of
\* the buffer is changed.
C2_BufferOverflow ==
    (LoaderRan /\ call.start + call.num > Len(vertexBuffer))
        => (call.outcome = Raise("BufferOverflow") /\ BufferUntouched)

C2_Witness ==
    /\ LoaderRan
    /\ call.start + call.num > Len(vertexBuffer)
    /\ BufferWasLoaded

\* C3 as stated: when ootAddSkinVertexData is called with
\* tableOffset + count above the length of the table, it raises the
\* index-range error and no slot of the buffer is changed.
C3_IndexRangeAlways ==
    (LoaderRan /\ CallOffset + call.num > Len(CallTable))
        => (call.outcome = Raise("IndexRange") /\ BufferUntouched)

\* C3 amended: when ootAddSkinVertexData is called with tableOffset + count
\* above the length of the table, the load fails and no slot of the buffer is
\* changed; the error is the index-range error when start + count is within
\* the capacity of the buffer, and the buffer-overflow error, whose check
\* comes first, when it is not.
C3_IndexRange ==
    (LoaderRan /\ CallOffset + call.num > Len(CallTable))
        => /\ Failed
           /\ BufferUntouched
           /\ call.outcome.err =
                  IF call.start + call.num > Len(vertexBuffer)
                  THEN "BufferOverflow" ELSE "IndexRange"

C3_Witness ==
    /\ LoaderRan
    /\ CallOffset + call.num > Len(CallTable)
    /\ call.start + call.num <= Len(vertexBuffer)
    /\ call.outcome.err = "IndexRange"
    /\ BufferWasLoaded

\* C4: when a load succeeds, for every i in 0..count-1 the slot start+i of the
\* buffer holds the wrapped vertex table[tableOffset+i], and every slot
\* outside start..start+count-1 is as it was before the call.
C4_LoadFrame ==
    (LoaderRan /\ call.outcome.kind = "return")
        => /\ \A i \in 0..(call.num - 1) :
                /\ call.start + i + 1 \in DOMAIN vertexBuffer
                /\ vertexBuffer[call.start + i + 1].f3dVert
                       = CallTable[CallOffset + i + 1]
           /\ \A j \in DOMAIN vertexBuffer :
                (j - 1 < call.start \/ j - 1 > call.start + call.num - 1)
                    => vertexBuffer[j] = call.before.vertexBuffer[j]

\* C5 as stated: over any sequence of calls, synthesis runs at most once for
\* each table name.
C5_SynthesisRunsOnce == \A n \in TableNames : synthRuns[n] <= 1

\* C5 amended: a table is stored at most once under each table name, and a
\* call that finds a table stored under its name neither runs synthesis nor
\* changes the cache: it loads from the stored table.  A call that finds no
\* table stored (after failed attempts too) runs synthesis again.
C5_Memoization ==
    /\ \A n \in TableNames : stores[n] <= 1
    /\ \A n \in TableNames :
           (n \notin DOMAIN vertexData /\ ~call.active) => stores[n] = 0
    /\ (call.active /\ call.stage # "entry"
            /\ vtxDataNameOf(CallPointer) \in DOMAIN call.before.vertexData)
           => (~call.synthesized /\ CacheUntouched /\ call.stage = "load")
    /\ (call.active /\ call.stage # "entry"
            /\ vtxDataNameOf(CallPointer) \notin DOMAIN call.before.vertexData)
           => call.synthesized

C5_Witness ==
    /\ LoaderRan
    /\ call.outcome.kind = "return"
    /\ call.num > 0
    /\ vtxDataNameOf(CallPointer) \in DOMAIN call.before.vertexData
    /\ synthRuns[vtxDataNameOf(CallPointer)] = 1

\* the limb of this index has a name and no transform in matrixData
LimbAbsent(limbIndex) ==
    /\ limbIndex >= 0 /\ limbIndex < Len(limbList)
    /\ limbList[limbIndex + 1] \notin DOMAIN matrixData

\* the transform records the anchor of a modification is computed from: the
\* selected one when there is exactly one record, every record otherwise
UsedTransforms(m) ==
    IF m.transformCount = 1
    THEN {k \in DOMAIN m.limbTransformations : k = m.unk_4 + 1}
    ELSE DOMAIN m.limbTransformations

UsesAbsentLimb(m) ==
    \E k \in UsedTransforms(m) : LimbAbsent(m.limbTransformations[k].limbIndex)

\* a modification synthesis goes through without an error
ModifClean(m) ==
    /\ m.transformCount = 1 => m.unk_4 = 0
    /\ \A k \in UsedTransforms(m) :
           /\ m.limbTransformations[k].limbIndex < Len(limbList)
           /\ ~LimbAbsent(m.limbTransformations[k].limbIndex)
    /\ \A k \in DOMAIN m.skinVertices :
           m.skinVertices[k].index < hexOrDecInt(animSkinLimbData.totalVtxCount).val

\* synthesis reaches the used records of modification k of the list: the
\* modifications before it go through, and none of its own records stops the
\* run before a transform is looked up
ReachesModif(k) ==
    /\ \A j \in 1..(k - 1) : ModifClean(defaultLimbModifications[j])
    /\ defaultLimbModifications[k].transformCount = 1
           => defaultLimbModifications[k].unk_4 = 0
    /\ \A r \in UsedTransforms(defaultLimbModifications[k]) :
           defaultLimbModifications[k].limbTransformations[r].limbIndex < Len(limbList)

\* the call under way ran the loop over the modifications
SynthesisLoopRan ==
    call.active /\ call.synthesized /\ call.stage \in {"synthesize", "print", "load"}

\* C6: ootRetrieveMatrixData raises the missing-bone-transform error for a limb
\* whose transform is absent from matrixData; a synthesis whose modifications
\* use such a limb fails, the missing-bone-transform error being the one
\* raised when the run reaches the record, and then no table is stored in the
\* cache and no slot of the buffer is changed.
C6_MissingBoneTransform ==
    /\ \A i \in 0..(Len(limbList) - 1) :
           LimbAbsent(i)
               => ootRetrieveMatrixData(matrixData, i).err = "MissingBoneTransform"
    /\ \A k \in DOMAIN defaultLimbModifications :
           (SynthesisLoopRan /\ UsesAbsentLimb(defaultLimbModifications[k]))
               => /\ Failed
                  /\ call.stage = "synthesize"
                  /\ vtxDataNameOf(CallPointer) \notin DOMAIN vertexData
                  /\ CacheUntouched
                  /\ BufferUntouched
                  /\ ReachesModif(k)
                         => call.outcome = Raise("MissingBoneTransform")

C6_Witness ==
    /\ SynthesisLoopRan
    /\ call.outcome = Raise("MissingBoneTransform")
    /\ \E k \in DOMAIN defaultLimbModifications :
           /\ k > 1
           /\ UsesAbsentLimb(defaultLimbModifications[k])
           /\ ReachesModif(k)

\* C7: in skin-limb mode a pointer whose low 24 bits are no multiple of 0x10
\* makes processVertexDataName raise the alignment error, with no synthesis
\* run and the cache and the buffer as they were.
C7_Alignment ==
    (call.active /\ isAnimSkinLimb /\ hexOrDecInt(call.name).err = "none"
        /\ (CallPointer % 16777216) % 16 # 0)
        => /\ call.outcome = Raise("Alignment")
           /\ ~call.synthesized
           /\ CacheUntouched
           /\ BufferUntouched

C7_Witness ==
    /\ call.active /\ isAnimSkinLimb /\ hexOrDecInt(call.name).err = "none"
    /\ (CallPointer % 16777216) % 16 # 0
    /\ call.outcome = Raise("Alignment")
    /\ BufferWasLoaded

\* the call under way went past the entry checks and found no table stored
CacheMiss ==
    /\ call.active /\ isAnimSkinLimb /\ hexOrDecInt(call.name).err = "none"
    /\ (CallPointer % 16777216) % 16 = 0
    /\ vtxDataNameOf(CallPointer) \notin DOMAIN call.before.vertexData

\* C8: an error raised inside ootParseAnimatedLimb leaves processVertexDataName
\* as that same error: the call does not return normally, and no table is
\* stored in place of the one whose synthesis failed.  So an unparsable count
\* in the header is a ValueError of the call, and a text without the named
\* array a not-found error of the call.
C8_Propagation ==
    /\ (call.active /\ call.raised # "none") => call.outcome = Raise(call.raised)
    /\ (call.active /\ call.stage \in {"header", "populate", "synthesize", "print"})
           => Failed
    /\ (call.active /\ call.stage \in {"header", "populate", "synthesize"})
           => vtxDataNameOf(CallPointer) \notin DOMAIN vertexData
    /\ (CacheMiss /\ hexOrDecInt(animSkinLimbData.totalVtxCount).err # "none")
           => call.outcome = Raise("ValueError")
    /\ (CacheMiss /\ hexOrDecInt(animSkinLimbData.totalVtxCount).err = "none"
            /\ animSkinLimbData.limbModifications \notin DOMAIN dlText)
           => call.outcome = Raise("NotFound")

C8_Witness ==
    /\ CacheMiss
    /\ hexOrDecInt(animSkinLimbData.totalVtxCount).err = "none"
    /\ animSkinLimbData.limbModifications \notin DOMAIN dlText
    /\ call.outcome = Raise("NotFound")

\* the world position of a transform record: the translation of the bone's
\* transform with the authoring scale divided out, plus the rotated offset
WorldPosition(tr) ==
    [c \in 1..3 |->
        matrixData[limbList[tr.limbIndex + 1]].loc[c]
            \div matrixData[limbList[tr.limbIndex + 1]].scale[c]
        + matrixData[limbList[tr.limbIndex + 1]].rot[c][1] * tr.x
        + matrixData[limbList[tr.limbIndex + 1]].rot[c][2] * tr.y
        + matrixData[limbList[tr.limbIndex + 1]].rot[c][3] * tr.z]

\* the limb of a transform record has a name and a transform in matrixData
Resolved(tr) ==
    /\ tr.limbIndex >= 0 /\ tr.limbIndex < Len(limbList)
    /\ limbList[tr.limbIndex + 1] \in DOMAIN matrixData

\* slot i of the cached table n holds a vertex
Synthesized(n, i) ==
    n \in DOMAIN vertexData /\ i \in DOMAIN vertexData[n] /\ vertexData[n][i] # None

\* the modification the vertex of slot i of the cached table n refers to
ModifOf(n, i) == defaultLimbModifications[vertexData[n][i].modif]

\* the record transforms[selector] of a modification
Selected(m) == m.limbTransformations[m.unk_4 + 1]

\* C9: the vertices of a modification with exactly one transform record lie
\* at the world position of the record, scaled by transforms[selector].scale
\* * 0.01: position = scale * (translation / authoring scale + rotated
\* offset), in hundredths; scale 150 at world position (10, 0, 0) gives
\* (15, 0, 0).
C9_SingleTransformAnchor ==
    \A n \in TableNames : \A i \in 1..Len(IF n \in DOMAIN vertexData
                                            THEN vertexData[n] ELSE <<>>) :
        (Synthesized(n, i) /\ ModifOf(n, i).transformCount = 1)
            => /\ Resolved(Selected(ModifOf(n, i)))
               /\ \A c \in 1..3 :
                     vertexData[n][i].position[c]
                         = WorldPosition(Selected(ModifOf(n, i)))[c]
                               * Selected(ModifOf(n, i)).scale
               /\ (Selected(ModifOf(n, i)).scale = 150
                     /\ WorldPosition(Selected(ModifOf(n, i))) = <<10, 0, 0>>)
                      => vertexData[n][i].position = <<1500, 0, 0>>

C9_Witness ==
    \E n \in TableNames : \E i \in 1..2 :
        /\ Synthesized(n, i)
        /\ ModifOf(n, i).transformCount = 1
        /\ Selected(ModifOf(n, i)).scale = 150
        /\ WorldPosition(Selected(ModifOf(n, i))) = <<10, 0, 0>>
        /\ vertexData[n][i].position = <<1500, 0, 0>>

----------------------------------------------------------------------------
(* Properties of the scanning loops, under ScanSpec *)

\* the record of the values of the group at position d of a body
ValueRecord(n, d) ==
    IF n = 7
    THEN [index |-> FieldValue(d, 1), s |-> FieldValue(d, 2), t |-> FieldValue(d, 3),
          normX |-> FieldValue(d, 4), normY |-> FieldValue(d, 5),
          normZ |-> FieldValue(d, 6), alpha |-> FieldValue(d, 7)]
    ELSE [limbIndex |-> FieldValue(d, 1), x |-> FieldValue(d, 2),
          y |-> FieldValue(d, 3), z |-> FieldValue(d, 4), scale |-> FieldValue(d, 5)]

\* the loop over the body has ended
ScanDone == scan.active /\ scan.done

\* every group of the body has the arity of the pattern and numeric fields,
\* the groups are separated by commas, with any whitespace around braces,
\* fields and commas, and a comma may or may not follow the last group
WellFormedBody ==
    \A d \in DOMAIN scan.kinds :
        \/ scan.kinds[d] \in {"plain", "hex", "spaced", "gap"}
        \/ d = Len(scan.kinds) /\ scan.kinds[d] = "bare"

\* C11: a body of N well-formed groups of the pattern's arity, separated by
\* commas, with or without a comma after the last group and with any
\* whitespace around them, yields exactly N records, in source order.
C11_AllGroupsTokenized ==
    (ScanDone /\ WellFormedBody)
        => /\ scan.err = "none"
           /\ scan.records = [d \in DOMAIN scan.kinds |-> ValueRecord(scan.arity, d)]

\* the group at position d has fewer or more fields than the pattern
ArityMismatch(d) == scan.kinds[d] \in {"short", "long"}

\* C12: when a body holds a group with fewer or more fields than the pattern,
\* the loop ends in an error and no record of a group after the first such
\* group is produced.
C12_StopsAtArityMismatch ==
    \A d \in DOMAIN scan.kinds :
        (ScanDone /\ ArityMismatch(d))
            => /\ scan.err # "none"
               /\ \A k \in DOMAIN scan.records : \A e \in DOMAIN scan.kinds :
                      scan.records[k] = ValueRecord(scan.arity, e) => e < d

\* every group of the body is written plainly, with decimal or with
\* hexadecimal fields
NotationOnly ==
    \A d \in DOMAIN scan.kinds : scan.kinds[d] \in {"plain", "hex"}

\* C16: a field written as a 0x token and the same value written as a decimal
\* token parse to the same integer, the value; so a body gives the same
\* SkinVertex or SkinTransformation records whichever of its groups are
\* written in hexadecimal.
C16_HexDecimalSameRecords ==
    /\ \A d \in 1..MaxGroups : \A j \in 1..7 :
           /\ hexOrDecInt(TokOf(CharsOf(Hex(FieldValue(d, j)))))
                  = [err |-> "none", val |-> FieldValue(d, j)]
           /\ hexOrDecInt(TokOf(CharsOf(Dec(FieldValue(d, j)))))
                  = [err |-> "none", val |-> FieldValue(d, j)]
    /\ (ScanDone /\ NotationOnly)
           => /\ scan.err = "none"
              /\ scan.records =
                     [d \in DOMAIN scan.kinds |-> ValueRecord(scan.arity, d)]

C16_Witness ==
    /\ ScanDone /\ NotationOnly
    /\ scan.arity = 7
    /\ \E d, e \in DOMAIN scan.kinds :
           scan.kinds[d] = "hex" /\ scan.kinds[e] = "plain"
    /\ Len(scan.records) = MaxGroups
    /\ \E k \in DOMAIN scan.records : scan.records[k].alpha > 16

----------------------------------------------------------------------------
(* Properties of synthesis, under Spec *)

\* totalVtxCount of the SkinAnimatedLimbData the session builds
TotalVtxCount == hexOrDecInt(animSkinLimbData.totalVtxCount).val

\* the anchor of a modification is computed without an error
AnchorClean(m) ==
    /\ m.transformCount = 1 => PyIndex(m.unk_4, Len(m.limbTransformations)) # 0
    /\ \A k \in UsedTransforms(m) : Resolved(m.limbTransformations[k])

\* a skin-vertex record of the modification has an index at or beyond the
\* end of the table
IndexBeyondTable(m) ==
    \E r \in DOMAIN m.skinVertices : m.skinVertices[r].index >= TotalVtxCount

\* synthesis reaches the vertex writes of modification k of the list, and no
\* record of it has a negative index below the start of the table
ReachesWrites(k) ==
    /\ \A j \in 1..(k - 1) : ModifClean(defaultLimbModifications[j])
    /\ AnchorClean(defaultLimbModifications[k])
    /\ \A r \in DOMAIN defaultLimbModifications[k].skinVertices :
           defaultLimbModifications[k].skinVertices[r].index >= 0

\* C13: every stored table has exactly totalVtxCount slots; a synthesis whose
\* modifications hold a skin-vertex record with an index of totalVtxCount or
\* more fails and stores no table, the error being the IndexError of the
\* write when the run reaches that record.
C13_IndexBeyondTable ==
    /\ \A n \in DOMAIN vertexData : Len(vertexData[n]) = TotalVtxCount
    /\ \A k \in DOMAIN defaultLimbModifications :
           (SynthesisLoopRan /\ IndexBeyondTable(defaultLimbModifications[k]))
               => /\ Failed
                  /\ call.stage = "synthesize"
                  /\ vtxDataNameOf(CallPointer) \notin DOMAIN vertexData
                  /\ CacheUntouched
                  /\ ReachesWrites(k) => call.outcome = Raise("IndexError")

C13_Witness ==
    /\ SynthesisLoopRan
    /\ call.outcome = Raise("IndexError")
    /\ call.stage = "synthesize"
    /\ \E k \in DOMAIN defaultLimbModifications :
           /\ ReachesWrites(k)
           /\ \E r \in DOMAIN defaultLimbModifications[k].skinVertices :
                  defaultLimbModifications[k].skinVertices[r].index = TotalVtxCount

----------------------------------------------------------------------------
(* Properties of the loader, under Spec *)

\* slot j of the buffer holds a vertex the loader wrote
Loaded(j) == j \in DOMAIN vertexBuffer /\ vertexBuffer[j] # EmptySlot

\* the modification of the vertex in slot j of the buffer
SlotModif(j) == defaultLimbModifications[vertexBuffer[j].f3dVert.modif]

\* C14: every slot the loader wrote is bound to the name of limb 0, with
\* index 0 as its third field, whatever the bone weights of the vertex and
\* the selector of its modification.
C14_BoundToLimbZero ==
    \A j \in DOMAIN vertexBuffer :
        Loaded(j) => /\ vertexBuffer[j].groupIndex = limbList[1]
                     /\ vertexBuffer[j].materialIndex = 0

C14_Witness ==
    \E j \in DOMAIN vertexBuffer :
        /\ Loaded(j)
        /\ vertexBuffer[j].groupIndex = limbList[1]
        /\ \A w \in DOMAIN vertexBuffer[j].f3dVert.weights :
               vertexBuffer[j].f3dVert.weights[w].limbIndex # 0
        /\ Len(vertexBuffer[j].f3dVert.weights) = 2
        /\ Selected(SlotModif(j)).limbIndex # 0

\* C15: every step, a call of processVertexDataName that fails or succeeds
\* among them, leaves matrixData with the keys and values it had; a limb
\* without a transform is not given one.
C15_MatrixDataReadOnly == [][matrixData' = matrixData]_vars

C15_Witness ==
    /\ call.active
    /\ call.raised = "MissingBoneTransform"
    /\ \E i \in DOMAIN limbList : limbList[i] \notin DOMAIN matrixData
    /\ defaultLimbModifications # <<>>

----------------------------------------------------------------------------
(* Properties of the synthesized table, under Spec *)

\* the call under way ran synthesis to its end and stored the table
SynthesisStored ==
    call.active /\ call.synthesized /\ call.stage \in {"print", "load"}

\* the table the call under way stored
StoredTable == vertexData[vtxDataNameOf(CallPointer)]

\* the (modification, record) pairs of the list whose index field names slot i
\* (the Python index i - 1) of the stored table
Writers(i) ==
    {w \in UNION {{<<k, r>> : r \in DOMAIN defaultLimbModifications[k].skinVertices} :
                  k \in DOMAIN defaultLimbModifications} :
        PyIndex(defaultLimbModifications[w[1]].skinVertices[w[2]].index,
                Len(StoredTable)) = i}

\* the last of them in modification order, then record order
LastWriter(i) ==
    CHOOSE w \in Writers(i) :
        \A u \in Writers(i) : u[1] < w[1] \/ (u[1] = w[1] /\ u[2] <= w[2])

WriterRecord(w) == defaultLimbModifications[w[1]].skinVertices[w[2]]

\* C17: after a synthesis that stored its table, slot i of the table holds
\* the vertex built from the last skin-vertex record with index field i, in
\* the order of the modifications and then of the records, whatever the
\* position of the record in its array; a slot no record names holds None.
C17_LastWriteWins ==
    SynthesisStored =>
        \A i \in DOMAIN StoredTable :
            LET w == LastWriter(i)
            IN  IF Writers(i) = {} THEN StoredTable[i] = None
                ELSE /\ StoredTable[i] # None
                     /\ StoredTable[i].modif = w[1]
                     /\ StoredTable[i] =
                            SkinF3DVert(StoredTable[i].position, w, WriterRecord(w),
                                        weightDataOf(defaultLimbModifications[w[1]]),
                                        w[1])

C17_Witness ==
    /\ SynthesisStored
    /\ Cardinality(Writers(1)) >= 3
    /\ LastWriter(1)[2] = 3
    /\ StoredTable[1] # None
    /\ StoredTable[1].uv = <<11, 21>>
    /\ StoredTable[2] # None
    /\ StoredTable[2].uv = <<10, 20>>

----------------------------------------------------------------------------
(* Properties of the SkinAnimatedLimbData a call builds, under Spec *)

\* the call built a SkinAnimatedLimbData and its populateLimbModifications
\* returned (lines 1044-1046)
LimbDataPopulated ==
    call.active /\ call.synthesized /\ call.stage \in {"synthesize", "print", "load"}

\* the records of the outer array the header names, in source order
OuterRecords == captureData(dlText, animSkinLimbData.limbModifications).body

\* the LimbModification populateLimbModifications makes of outer record k
\* when it is the self-th object of the list
ModificationOf(self, k) ==
    populateSkinLimbModif(self, dlText, hexOrDecInt(OuterRecords[k][3]).val,
                          OuterRecords[k][4], OuterRecords[k][5]).modif

\* skinAnimLimbData.limbModifications after the call: the instance was built
\* without a list of its own, so it holds the default list of the class
BuiltModifications == defaultLimbModifications

\* skinAnimLimbData.limbModifCount after the call: set to 0 at line 621 and
\* incremented once per append of this call
BuiltModifCount == Len(defaultLimbModifications) - Len(call.before.limbModifications)

\* the modifications this call appended
AppendedModifications ==
    SubSeq(defaultLimbModifications, Len(call.before.limbModifications) + 1,
           Len(defaultLimbModifications))

\* C18: every SkinAnimatedLimbData built, the second and later ones and those
\* built after a failed attempt included, holds exactly one LimbModification
\* per record of its own outer array, in source order, and its limbModifCount
\* is the length of that sequence.
C18_OneModificationPerRecord ==
    LimbDataPopulated =>
        /\ Len(BuiltModifications) = Len(OuterRecords)
        /\ BuiltModifCount = Len(BuiltModifications)
        /\ \A k \in 1..Len(OuterRecords) :
               k \in DOMAIN BuiltModifications
               /\ BuiltModifications[k] = ModificationOf(k, k)

\* what the code keeps: the modifications a build appends are those of its
\* own outer array in source order, and limbModifCount counts them
C18_AppendedPerRecord ==
    LimbDataPopulated =>
        /\ BuiltModifCount = Len(OuterRecords)
        /\ \A k \in 1..Len(OuterRecords) :
               k \in DOMAIN AppendedModifications
               /\ AppendedModifications[k]
                      = ModificationOf(Len(call.before.limbModifications) + k, k)

\* a second build whose sequence is longer than its outer array
C18_SecondBuild ==
    /\ LimbDataPopulated
    /\ call.before.limbModifications # <<>>
    /\ Len(BuiltModifications) > Len(OuterRecords)
    /\ BuiltModifCount < Len(BuiltModifications)

----------------------------------------------------------------------------
(* Properties of the synthesized vertices, under Spec *)

\* the slots of the cached table n
SlotsOf(n) == 1..Len(IF n \in DOMAIN vertexData THEN vertexData[n] ELSE <<>>)

\* the pair VertexWeight(limbIndex, scale * 0.01) of a transform record,
\* the weight in hundredths
WeightPair(tr) == [limbIndex |-> tr.limbIndex, weight |-> tr.scale]

\* C19: in both anchor branches the bone-weight list of a vertex holds
\* exactly one pair (limbIndex, scale * 0.01) per transform record of its
\* modification, in record order, and the vertices written for one
\* modification have the same list.
C19_WeightPerTransform ==
    \A n \in TableNames : \A i \in SlotsOf(n) :
        Synthesized(n, i)
            => /\ Len(vertexData[n][i].weights) = Len(ModifOf(n, i).limbTransformations)
               /\ \A k \in DOMAIN ModifOf(n, i).limbTransformations :
                     k \in DOMAIN vertexData[n][i].weights
                     /\ vertexData[n][i].weights[k]
                            = WeightPair(ModifOf(n, i).limbTransformations[k])
               /\ \A j \in SlotsOf(n) :
                     (Synthesized(n, j) /\ vertexData[n][j].modif = vertexData[n][i].modif)
                         => vertexData[n][j].weights = vertexData[n][i].weights

\* a table with a vertex of the single-transform branch (one pair) and a
\* vertex of the summing branch (two pairs, in record order)
C19_Witness ==
    \E n \in TableNames :
        /\ Synthesized(n, 1) /\ Synthesized(n, 2)
        /\ ModifOf(n, 1).transformCount = 1
        /\ vertexData[n][1].weights = <<[limbIndex |-> 1, weight |-> 150]>>
        /\ ModifOf(n, 2).transformCount = 2
        /\ vertexData[n][2].weights
               = <<[limbIndex |-> 1, weight |-> 50], [limbIndex |-> 2, weight |-> 50]>>

\* the records of the modification of slot i of table n that name the slot
RecordsNaming(n, i) ==
    {k \in DOMAIN ModifOf(n, i).skinVertices :
        PyIndex(ModifOf(n, i).skinVertices[k].index, Len(vertexData[n])) = i}

\* the record the vertex of slot i of table n was written for: the last of
\* them
RecordOf(n, i) ==
    ModifOf(n, i).skinVertices[CHOOSE k \in RecordsNaming(n, i) :
                                  \A u \in RecordsNaming(n, i) : u <= k]

\* C20: a synthesized vertex written for a skin-vertex record has the
\* coordinates of the anchor of its modification in a Vector of its own (not
\* the anchor's, and not that of another vertex of the table), uv = (s, t),
\* colour (1, 1, 1), normal = (normX, normY, normZ), the alpha of the record,
\* and refers to the modification that holds the record.
C20_SynthesizedVertexFields ==
    \A n \in TableNames : \A i \in SlotsOf(n) :
        Synthesized(n, i)
            => /\ vertexData[n][i].modif \in DOMAIN defaultLimbModifications
               /\ RecordsNaming(n, i) # {}
               /\ anchorOf(matrixData, ModifOf(n, i))
                     = [err |-> "none", point |-> vertexData[n][i].position]
               /\ vertexData[n][i].positionObject # AnchorVector(vertexData[n][i].modif)
               /\ \A j \in SlotsOf(n) \ {i} :
                     Synthesized(n, j)
                         => vertexData[n][j].positionObject
                                # vertexData[n][i].positionObject
               /\ vertexData[n][i].rgb = <<1, 1, 1>>
               /\ LET r == RecordOf(n, i)
                  IN  /\ vertexData[n][i].uv = <<r.s, r.t>>
                      /\ vertexData[n][i].normal = <<r.normX, r.normY, r.normZ>>
                      /\ vertexData[n][i].alpha = r.alpha

\* two slots written for two records of one modification: the same
\* coordinates in two Vectors, each with the fields of its own record
C20_Witness ==
    \E n \in TableNames :
        /\ Synthesized(n, 1) /\ Synthesized(n, 2)
        /\ vertexData[n][1].modif = vertexData[n][2].modif
        /\ vertexData[n][1].position = vertexData[n][2].position
        /\ vertexData[n][1].position # <<0, 0, 0>>
        /\ vertexData[n][1].positionObject # vertexData[n][2].positionObject
        /\ vertexData[n][1].uv = <<11, 21>> /\ vertexData[n][2].uv = <<10, 20>>
        /\ vertexData[n][1].normal = <<4, 5, 6>> /\ vertexData[n][2].normal = <<1, 2, 3>>
        /\ vertexData[n][1].alpha = 128 /\ vertexData[n][2].alpha = 255
        /\ vertexData[n][1].rgb = <<1, 1, 1>> /\ vertexData[n][2].rgb = <<1, 1, 1>>

----------------------------------------------------------------------------
(* Properties of the populated modifications, under Spec *)

\* the modifications populateSkinLimbModif returned for: every one of them
\* was appended to the list (line 626)
Populated == DOMAIN defaultLimbModifications

\* C21: after populateSkinLimbModif, vtxCount is the number of SkinVertex
\* records the modification holds and transformCount the number of its
\* SkinTransformation records, and neither list is the list of another
\* modification (nor the other list of the same one).
C21_CountsAndOwnLists ==
    /\ \A k \in Populated :
          /\ defaultLimbModifications[k].vtxCount
                = Len(defaultLimbModifications[k].skinVertices)
          /\ defaultLimbModifications[k].transformCount
                = Len(defaultLimbModifications[k].limbTransformations)
    /\ Cardinality({defaultLimbModifications[k].skinVerticesObject : k \in Populated}
                   \cup {defaultLimbModifications[k].limbTransformationsObject :
                             k \in Populated})
          = 2 * Len(defaultLimbModifications)

\* two modifications populated from arrays of different lengths: one vertex
\* record and one transform, then three vertex records and one transform
C21_Witness ==
    /\ Len(defaultLimbModifications) >= 2
    /\ defaultLimbModifications[1].vtxCount = 1
    /\ Len(defaultLimbModifications[1].skinVertices) = 1
    /\ defaultLimbModifications[2].vtxCount = 3
    /\ Len(defaultLimbModifications[2].skinVertices) = 3
    /\ defaultLimbModifications[2].transformCount = 1
    /\ defaultLimbModifications[1].skinVerticesObject
          # defaultLimbModifications[2].skinVerticesObject

----------------------------------------------------------------------------
(* Properties of the stored tables, under Spec *)

\* the number of writes of slot i during the synthesis of the call: one per
\* record of the iterated list that names the slot (lines 1052, 1081-1082)
WritesOf(i) == Cardinality(Writers(i))

\* C22: during one synthesis no slot of the table is written more than once,
\* and after it every slot 0..totalVertexCount-1 holds a synthesized vertex.
C22_EachSlotWrittenOnce ==
    SynthesisStored =>
        \A i \in DOMAIN StoredTable : WritesOf(i) = 1 /\ StoredTable[i] # None

\* the first synthesis of a session writes a slot three times
C22_SlotWrittenThrice ==
    /\ SynthesisStored
    /\ call.before.limbModifications = <<>>
    /\ \E i \in DOMAIN StoredTable : WritesOf(i) = 3

\* the first synthesis of a session stores a table with a slot never written
C22_SlotNeverWritten ==
    /\ SynthesisStored
    /\ call.before.limbModifications = <<>>
    /\ \E i \in DOMAIN StoredTable : WritesOf(i) = 0 /\ StoredTable[i] = None

----------------------------------------------------------------------------
(* Properties of the table name and the table offset, under Spec *)

\* the call under way ran the loader to its end
LoadCompleted == LoaderRan /\ ~Failed

\* pointer >> 24 of the call under way
CallSegment == CallPointer \div 16777216

\* C23: for an aligned pointer the table is named after the segment id
\* (pointer >> 24) alone and the loader reads it from the offset
\* (pointer & 0x00FFFFFF) / 0x10: a completed load finds the table of the
\* segment in the cache, synthesizes only when the segment had none, and
\* copies table[offset + i] into the i-th destination slot.
C23_SegmentTableAndOffset ==
    LoadCompleted =>
        /\ CallSegment \in DOMAIN vertexData
        /\ call.synthesized <=> CallSegment \notin DOMAIN call.before.vertexData
        /\ DOMAIN vertexData = DOMAIN call.before.vertexData \cup {CallSegment}
        /\ \A i \in 0..(call.num - 1) :
              /\ CallOffset + i + 1 \in DOMAIN vertexData[CallSegment]
              /\ PyIndex(call.start + i, Len(vertexBuffer)) \in DOMAIN vertexBuffer
              /\ vertexBuffer[PyIndex(call.start + i, Len(vertexBuffer))].f3dVert
                    = vertexData[CallSegment][CallOffset + i + 1]

\* a second pointer into segment 8, at offset 1, loads the second vertex of
\* the table the first pointer left in the cache
C23_Witness ==
    /\ LoadCompleted
    /\ CallPointer = 134217744
    /\ ~call.synthesized
    /\ DOMAIN vertexData = {8}
    /\ call.num = 1 /\ call.start = 0
    /\ vertexBuffer[1].f3dVert = vertexData[8][2]
    /\ vertexData[8][2] # vertexData[8][1]

----------------------------------------------------------------------------
(* Properties of the outcome of processVertexDataName, under LimbSpec *)

\* the name of the call under way is a number
NumericName == call.active /\ hexOrDecInt(call.name).err = "none"

\* some table was in the cache when the call under way started
CacheWasFilled == DOMAIN call.before.vertexData # {}

\* C24: processVertexDataName returns a name that is no number unchanged and
\* touches neither the cache nor the buffer; for a number outside skin-limb
\* mode it raises, again with cache and buffer as they were; for a number in
\* skin-limb mode whose load completes it returns None.
C24_Outcomes ==
    call.active =>
        /\ ~NumericName
              => call.outcome = Return(call.name) /\ CacheUntouched /\ BufferUntouched
        /\ (NumericName /\ ~isAnimSkinLimb)
              => /\ call.outcome = Raise("SegmentNotParsable")
                 /\ CacheUntouched /\ BufferUntouched
        /\ (NumericName /\ isAnimSkinLimb /\ call.stage = "load" /\ call.raised = "none")
              => call.outcome = Return(None)

\* a pointer outside skin-limb mode, with a table in the cache and vertices
\* in the buffer
C24_Witness ==
    /\ NumericName /\ ~isAnimSkinLimb
    /\ call.outcome = Raise("SegmentNotParsable")
    /\ CacheWasFilled /\ BufferWasLoaded

----------------------------------------------------------------------------
(* Properties of the cache after a failed synthesis, under Spec *)

\* the call under way triggered synthesis and raised before the loader ran
FailedBeforeLoad == Failed /\ call.synthesized /\ call.stage # "load"

\* C25: when a call that triggered synthesis ends in an error raised before
\* the loader runs, the cache holds no table of that name afterwards; that
\* is, every table of the cache has a synthesized vertex in every slot.
C25_NoTableAfterFailure ==
    /\ FailedBeforeLoad => CallSegment \notin DOMAIN vertexData
    /\ \A n \in DOMAIN vertexData : \A i \in DOMAIN vertexData[n] :
          vertexData[n][i] # None

\* the printing loop raised after the table was stored: the cache holds a
\* table with an empty slot
C25_StoredThenRaised ==
    /\ FailedBeforeLoad
    /\ call.stage = "print" /\ call.raised = "AttributeError"
    /\ CallSegment \in DOMAIN vertexData
    /\ CallSegment \notin DOMAIN call.before.vertexData
    /\ \E i \in DOMAIN vertexData[CallSegment] : vertexData[CallSegment][i] = None

\* what the code keeps: an error raised before the table is stored (reading
\* the header, populating, synthesizing) leaves the cache as it was
C25_EarlierStagesLeaveCache ==
    (FailedBeforeLoad /\ call.stage # "print") => CacheUntouched

----------------------------------------------------------------------------
(* Properties of the copy loop of the loader, under Spec *)

\* the loader ran and its two bounds checks passed (lines 1126, 1135)
ChecksPassed ==
    /\ LoaderRan
    /\ call.start + call.num <= Len(vertexBuffer)
    /\ CallOffset + call.num <= Len(vertexData[CallSegment])

\* C26: for every table of the cache, a load whose two bounds checks pass
\* completes without error: the lookup of limbTransformations[unk_4] on the
\* modification of each vertex never fails and never stops the copy after
\* some slots were written.
C26_LoadCompletes ==
    ChecksPassed => (~Failed /\ call.raised = "none")

\* a table with a vertex in every slot, a start that is no negative number,
\* and the lookup of line 1143 raising IndexError after the first slot was
\* written
C26_LookupFails ==
    /\ ChecksPassed
    /\ call.start >= 0 /\ call.num = 2
    /\ ~HasNone(vertexData[CallSegment])
    /\ call.raised = "IndexError"
    /\ vertexBuffer[call.start + 1] # call.before.vertexBuffer[call.start + 1]
    /\ vertexBuffer[call.start + 1].f3dVert = vertexData[CallSegment][CallOffset + 1]
    /\ vertexBuffer[call.start + 2] = call.before.vertexBuffer[call.start + 2]

\* the modification of the second vertex has no transform at all
C26_NoTransforms ==
    /\ C26_LookupFails
    /\ defaultLimbModifications[vertexData[CallSegment][CallOffset + 2].modif]
          .limbTransformations = <<>>

\* the selector of the modification of the second vertex is its transform
\* count
C26_SelectorBeyond ==
    /\ C26_LookupFails
    /\ defaultLimbModifications[vertexData[CallSegment][CallOffset + 2].modif].unk_4
          = Len(defaultLimbModifications[vertexData[CallSegment][CallOffset + 2].modif]
                    .limbTransformations)
    /\ defaultLimbModifications[vertexData[CallSegment][CallOffset + 2].modif].unk_4 = 2

\* the slots of the buffer the call under way changed, as Python positions
ChangedSlots ==
    {j - 1 : j \in {k \in DOMAIN vertexBuffer :
                       vertexBuffer[k] # call.before.vertexBuffer[k]}}

\* C27: for all integers start and count, negative ones included, the loader
\* writes only slots whose position lies in start..start+count-1 and in
\* 0..capacity-1; a negative start never wraps around to the end of the
\* buffer.
C27_WritesWithinRange ==
    call.active =>
        \A p \in ChangedSlots :
            /\ p >= call.start /\ p <= call.start + call.num - 1
            /\ p >= 0 /\ p <= Len(vertexBuffer) - 1

\* start -1 and count 1 pass both checks and the last slot of the buffer is
\* written
C27_WrapsToLastSlot ==
    /\ LoadCompleted
    /\ call.start = -1 /\ call.num = 1
    /\ ChangedSlots = {Len(vertexBuffer) - 1}
    /\ vertexBuffer[Len(vertexBuffer)].f3dVert = vertexData[CallSegment][CallOffset + 1]

\* what the code keeps: with a start that is no negative number, every slot
\* changed lies in start..start+count-1
C27_RangeForNaturalStart ==
    (call.active /\ call.start >= 0) =>
        \A p \in ChangedSlots : p >= call.start /\ p <= call.start + call.num - 1

----------------------------------------------------------------------------
(* Properties of a synthesis after other syntheses, under SkeletonSpec *)

\* what the block that creates the vertices gives for the text, the header
\* and the bone transforms of the call under way when nothing was synthesized
\* before: an empty cache and an empty list of modifications
FreshRun ==
    createVertices(<<>>, <<>>, animSkinLimbData, matrixData, CallSegment, dlText)

\* the fields of a vertex of a table, without the identity of the objects it
\* refers to
VertexValue(v) ==
    IF v = None THEN None
    ELSE [position |-> v.position, uv |-> v.uv, rgb |-> v.rgb,
          normal |-> v.normal, alpha |-> v.alpha, weights |-> v.weights]

\* the values of the slots of a table
TableValue(table) == [i \in DOMAIN table |-> VertexValue(table[i])]

\* the call under way built a SkinAnimatedLimbData
Synthesizing == call.active /\ call.synthesized

\* C28: the table synthesized for a table name depends only on the text,
\* the header and the bone transforms at the call: the call stores a table
\* exactly when a run with nothing synthesized before does, and the same
\* one, whatever was synthesized or failed earlier in the session.
C28_SameAsFreshRun ==
    Synthesizing =>
        /\ CallSegment \in DOMAIN vertexData <=> CallSegment \in DOMAIN FreshRun.vertexData
        /\ CallSegment \in DOMAIN vertexData
              => /\ CallSegment \in DOMAIN FreshRun.vertexData
                 /\ TableValue(vertexData[CallSegment])
                       = TableValue(FreshRun.vertexData[CallSegment])

\* the second limb synthesized after the first: its table holds in slot 1 a
\* vertex of the first limb, where a run with nothing synthesized before
\* leaves None, and the call completes where that run raises
C28_LeftoverVertex ==
    /\ Synthesizing /\ LoadCompleted
    /\ animSkinLimbData.limbModifications = "gLimbModifsB"
    /\ call.before.limbModifications # <<>>
    /\ vertexData[CallSegment][2] # None
    /\ FreshRun.err = "AttributeError"
    /\ FreshRun.vertexData[CallSegment][2] = None

\* the first synthesis of a session is the run with nothing before it
C28_FirstRunIsFresh ==
    (Synthesizing /\ call.before.limbModifications = <<>>
        /\ DOMAIN call.before.vertexData = {})
        => /\ call.stage # "load" => (call.raised = FreshRun.err /\ call.stage = FreshRun.stage)
           /\ vertexData = FreshRun.vertexData

====
